---- MODULE Spec2Model ----
(***************************************************************************)
(* Timestamp recognition of the CLP compression core                       *)
(* (src/src/TimestampPattern.cpp): the catalog of known patterns, the      *)
(* parser, the search over the catalog and the formatter.                  *)
(*                                                                         *)
(* A string is a sequence of one-character strings, indexed from 0 in the  *)
(* code and from 1 here (str[ix] of the code is str[ix + 1]).              *)
(*                                                                         *)
(* epochtime_t is a 64-bit count of milliseconds since 1970-01-01T00:00Z.  *)
(* TLC's integers are 32 bits wide, so a value t is held as the pair       *)
(* [d |-> t \div 86400000, ms |-> t % 86400000] (days since the epoch,     *)
(* milliseconds into that day), which is one-to-one with t.  EpochMs       *)
(* normalises such a pair.                                                 *)
(***************************************************************************)
EXTENDS Integers, Sequences, FiniteSets, TLC

(***************************************************************************)
(* File-scope constants                                                    *)
(***************************************************************************)
cNumDaysInWeek == 7

cAbbrevDaysOfWeek ==
    << <<"S","u","n">>, <<"M","o","n">>, <<"T","u","e">>, <<"W","e","d">>, <<"T","h","u">>, <<"F","r","i">>, <<"S","a","t">> >>

cNumMonths == 12

cAbbrevMonthNames ==
    << <<"J","a","n">>, <<"F","e","b">>, <<"M","a","r">>, <<"A","p","r">>, <<"M","a","y">>, <<"J","u","n">>,
       <<"J","u","l">>, <<"A","u","g">>, <<"S","e","p">>, <<"O","c","t">>, <<"N","o","v">>, <<"D","e","c">> >>

cMonthNames ==
    << <<"J","a","n","u","a","r","y">>, <<"F","e","b","r","u","a","r","y">>, <<"M","a","r","c","h">>, <<"A","p","r","i","l">>, <<"M","a","y">>, <<"J","u","n","e">>,
       <<"J","u","l","y">>, <<"A","u","g","u","s","t">>, <<"S","e","p","t","e","m","b","e","r">>, <<"O","c","t","o","b","e","r">>, <<"N","o","v","e","m","b","e","r">>,
       <<"D","e","c","e","m","b","e","r">> >>

\* string::npos, the position "none"
npos == -1

\* Milliseconds in a day: the radix of the pair that holds an epochtime_t
MsPerDay == 86400000

(***************************************************************************)
(* Characters                                                              *)
(***************************************************************************)
DigitChars == <<"0","1","2","3","4","5","6","7","8","9">>

\* c >= '0' && c <= '9'
IsDigit(c) == \E i \in 1..10 : DigitChars[i] = c

\* c - '0'
DigitValue(c) == (CHOOSE i \in 1..10 : DigitChars[i] = c) - 1

\* std::to_string of a value in 0..9999
RECURSIVE to_string(_)
to_string(value) ==
    IF value < 10 THEN <<DigitChars[value + 1]>>
    ELSE to_string(value \div 10) \o <<DigitChars[(value % 10) + 1]>>

\* str.compare(ix, Len(name), name) == 0: the characters of str from ix are
\* those of name (a shorter remainder compares unequal)
CompareAt(str, ix, name) ==
    /\ ix + Len(name) <= Len(str)
    /\ \A k \in 1..Len(name) : str[ix + k] = name[k]

\* str.compare(ix, ...) throws std::out_of_range when ix > str.length()
CompareThrows(str, ix) == ix > Len(str)

(***************************************************************************)
(* The date library (date::year/month/day, sys_days, floor<days>)          *)
(***************************************************************************)
IsLeap(y) == (y % 4 = 0) /\ ((y % 100 # 0) \/ (y % 400 = 0))

LastDayOfMonth(y, m) ==
    IF m = 2 THEN (IF IsLeap(y) THEN 29 ELSE 28)
    ELSE IF m \in {4, 6, 9, 11} THEN 30 ELSE 31

\* A faulty year_month_day::ok(): every field in its own range, the length
\* of the month not looked at
YearMonthDayOk_FieldsInRange(y, m, d) ==
    /\ m >= 1 /\ m <= 12
    /\ d >= 1 /\ d <= 31

\* year_month_day::ok()
YearMonthDayOk(y, m, d) ==
    /\ m >= 1 /\ m <= 12
    /\ d >= 1 /\ d <= LastDayOfMonth(y, m)

\* sys_days(year_month_day): days since 1970-01-01 of a civil date
\* (days_from_civil: y is the year that starts in March, mp the month from
\* March, doy the day of that year, doe the day of the 400-year era)
DaysFromDoe(era, doe) == era * 146097 + doe - 719468

DaysFromDoy(y, doy) ==
    DaysFromDoe(y \div 400,
                (y % 400) * 365 + (y % 400) \div 4 - (y % 400) \div 100 + doy)

DaysFromMp(y, mp, d) == DaysFromDoy(y, (153 * mp + 2) \div 5 + d - 1)

DaysFromCivil(year, m, d) ==
    DaysFromMp(IF m <= 2 THEN year - 1 ELSE year,
               IF m > 2 THEN m - 3 ELSE m + 9, d)

\* year_month_day(sys_days): the civil date of a day number
\* (civil_from_days, with the same names)
CivilFromMp(y, doy, mp) ==
    [year |-> IF mp < 10 THEN y ELSE y + 1,
     month |-> IF mp < 10 THEN mp + 3 ELSE mp - 9,
     day |-> doy - (153 * mp + 2) \div 5 + 1]

CivilFromDoy(y, doy) == CivilFromMp(y, doy, (5 * doy + 2) \div 153)

CivilFromYoe(era, doe, yoe) ==
    CivilFromDoy(yoe + era * 400,
                 doe - (365 * yoe + yoe \div 4 - yoe \div 100))

CivilFromDoe(era, doe) ==
    CivilFromYoe(era, doe,
        (doe - doe \div 1460 + doe \div 36524 - doe \div 146096) \div 365)

CivilFromDays(days) ==
    CivilFromDoe((days + 719468) \div 146097, (days + 719468) % 146097)

\* weekday(sys_days) - Sunday: 0 = Sunday .. 6 = Saturday
WeekdayIndex(days) == (days + 4) % 7

\* The epochtime_t with the given day number and millisecond offset
EpochMs(days, ms) == [d |-> days + ms \div MsPerDay, ms |-> ms % MsPerDay]

(***************************************************************************)
(* File-scope functions                                                    *)
(***************************************************************************)
\* The first index in ix..end_ix that holds no padding character
RECURSIVE SkipPadding(_, _, _, _)
SkipPadding(str, ix, end_ix, padding_character) ==
    IF ix < end_ix /\ str[ix + 1] = padding_character
    THEN SkipPadding(str, ix + 1, end_ix, padding_character)
    ELSE ix

\* The decimal value of str[ix..end_ix), or failure at the first non-digit
RECURSIVE ConvertDigits(_, _, _, _)
ConvertDigits(str, ix, end_ix, converted_value) ==
    IF ix >= end_ix THEN [ok |-> TRUE, value |-> converted_value]
    ELSE IF ~IsDigit(str[ix + 1]) THEN [ok |-> FALSE, value |-> 0]
    ELSE ConvertDigits(str, ix + 1, end_ix,
                       converted_value * 10 + DigitValue(str[ix + 1]))

\* convert_string_to_number: on failure the caller's value is not written
\* (and the callers do not read it: every use is behind the || of the test)
convert_string_to_number(str, begin_ix, end_ix, padding_character) ==
    ConvertDigits(str, SkipPadding(str, begin_ix, end_ix, padding_character),
                  end_ix, 0)

\* A run of n copies of one character
Repeat(c, n) == [i \in 1..n |-> c]

\* std::to_string of an int
IntToString(value) ==
    IF value < 0 THEN <<"-">> \o to_string(0 - value) ELSE to_string(value)

\* append_padded_value: str.append(length - value_str.length(), padding) is
\* given a size_t, so a value wider than length asks for about 2^64
\* characters and std::string throws std::length_error
AppendPadded(value_str, padding_character, length, str) ==
    IF Len(value_str) > length
    THEN [thrown |-> "length_error", str |-> str]
    ELSE [thrown |-> "none",
          str |-> str \o Repeat(padding_character, length - Len(value_str))
                      \o value_str]

append_padded_value(value, padding_character, length, str) ==
    AppendPadded(IntToString(value), padding_character, length, str)

(***************************************************************************)
(* TimestampPattern::parse_timestamp                                       *)
(***************************************************************************)
\* The fields of a timestamp before any specifier is parsed
InitialFields ==
    [date |-> 1, month |-> 1, year |-> 1970, hour |-> 0,
     uses_12_hour_clock |-> FALSE, minute |-> 0, second |-> 0,
     millisecond |-> 0, is_pm |-> FALSE]

\* The loop that finds the beginning of the timestamp: it stops after the
\* m_num_spaces_before_ts-th space or at the end of the line
RECURSIVE FindTimestampBegin(_, _, _, _)
FindTimestampBegin(line, m_num_spaces_before_ts, num_spaces_found, line_ix) ==
    IF num_spaces_found < m_num_spaces_before_ts /\ line_ix < Len(line)
    THEN FindTimestampBegin(line, m_num_spaces_before_ts,
             IF line[line_ix + 1] = " " THEN num_spaces_found + 1
                                        ELSE num_spaces_found,
             line_ix + 1)
    ELSE [num_spaces_found |-> num_spaces_found, line_ix |-> line_ix]

\* A faulty numeric field: a digit right after the field fails it
NumericField_DigitAfterFails(line, line_ix, cFieldLength, padding_character) ==
    IF line_ix + cFieldLength > Len(line) THEN [ok |-> FALSE, value |-> 0]
    ELSE IF /\ line_ix + cFieldLength < Len(line)
            /\ line[line_ix + cFieldLength + 1] \in {"0", "9"}
         THEN [ok |-> FALSE, value |-> 0]
    ELSE convert_string_to_number(line, line_ix, line_ix + cFieldLength,
                                  padding_character)

\* A fixed-width numeric field: too short a line, or a non-number, fails
NumericField(line, line_ix, cFieldLength, padding_character) ==
    IF line_ix + cFieldLength > Len(line) THEN [ok |-> FALSE, value |-> 0]
    ELSE convert_string_to_number(line, line_ix, line_ix + cFieldLength,
                                  padding_character)

\* A faulty %y: the pivot one year late
TwoDigitYear_PivotAt70(value) ==
    IF value >= 70 THEN value + 1900 ELSE value + 2000

\* %y: year >= 69 is treated as 1900s, year below 69 as 2000s
TwoDigitYear(value) == IF value >= 69 THEN value + 1900 ELSE value + 2000

\* %I and %l: value < 1 || value > 12 fails
Hour12InRange(value) == value >= 1 /\ value <= 12

\* A faulty %S range test: no leap second
SecondInRange_NoLeapSecond(value) == value >= 0 /\ value <= 59

\* %S: value < 0 || value > 60 fails
SecondInRange(value) == value >= 0 /\ value <= 60

\* The range test of each numeric specifier
FieldInRange(c, value) ==
    CASE c = "y" -> value >= 0 /\ value <= 99
      [] c = "Y" -> value >= 0 /\ value <= 9999
      [] c = "m" -> value >= 1 /\ value <= 12
      [] c \in {"d", "e"} -> value >= 1 /\ value <= 31
      [] c \in {"H", "k"} -> value >= 0 /\ value <= 23
      [] c \in {"I", "l"} -> Hour12InRange(value)
      [] c = "M" -> value >= 0 /\ value <= 59
      [] c = "S" -> SecondInRange(value)
      [] c = "3" -> value >= 0 /\ value <= 999

\* cFieldLength of each numeric specifier
FieldLength(c) == IF c = "Y" THEN 4 ELSE IF c = "3" THEN 3 ELSE 2

\* The padding character of each numeric specifier
FieldPadding(c) == IF c \in {"e", "k", "l"} THEN " " ELSE "0"

\* The field a numeric specifier stores its value in
StoreField(c, value, f) ==
    CASE c = "y" -> [f EXCEPT !.year = TwoDigitYear(value)]
      [] c = "Y" -> [f EXCEPT !.year = value]
      [] c = "m" -> [f EXCEPT !.month = value]
      [] c \in {"d", "e"} -> [f EXCEPT !.date = value]
      [] c \in {"H", "k"} -> [f EXCEPT !.hour = value]
      [] c \in {"I", "l"} ->
            [f EXCEPT !.hour = value, !.uses_12_hour_clock = TRUE]
      [] c = "M" -> [f EXCEPT !.minute = value]
      [] c = "S" -> [f EXCEPT !.second = value]
      [] c = "3" -> [f EXCEPT !.millisecond = value]

\* The index (from 1) of the first name of the table found at line_ix, or 0
FindName(line, line_ix, names) ==
    IF \E k \in 1..Len(names) : CompareAt(line, line_ix, names[k])
    THEN CHOOSE k \in 1..Len(names) :
            /\ CompareAt(line, line_ix, names[k])
            /\ \A j \in 1..(k - 1) : ~CompareAt(line, line_ix, names[j])
    ELSE 0

NumericSpecifiers == {"y", "Y", "m", "d", "e", "H", "k", "I", "l", "M", "S", "3"}

\* What a case of the switch leaves: the new line_ix and fields, ok = FALSE
\* where the code returns false, or the exception a library call throws
FieldFailed(line_ix, f) ==
    [ok |-> FALSE, thrown |-> "none", line_ix |-> line_ix, f |-> f]

FieldParsed(line_ix, f) ==
    [ok |-> TRUE, thrown |-> "none", line_ix |-> line_ix, f |-> f]

FieldThrew(line_ix, f) ==
    [ok |-> FALSE, thrown |-> "out_of_range", line_ix |-> line_ix, f |-> f]

\* The cases of the numeric specifiers, r being the converted number
NumericCase(c, line_ix, f, r) ==
    IF ~r.ok \/ ~FieldInRange(c, r.value) THEN FieldFailed(line_ix, f)
    ELSE FieldParsed(line_ix + FieldLength(c), StoreField(c, r.value, f))

\* The cases of the month names, k being the index of the name found
MonthNameCase(names, line_ix, f, k) ==
    IF k = 0 THEN FieldFailed(line_ix, f)
    ELSE FieldParsed(line_ix + Len(names[k]), [f EXCEPT !.month = k])

\* A faulty weekday case: the last name of the table is not looked for
WeekdayCase_LastDayMissed(line_ix, f, k) ==
    IF k = 0 \/ k = cNumDaysInWeek THEN FieldFailed(line_ix, f)
    ELSE FieldParsed(line_ix + Len(cAbbrevDaysOfWeek[k]), f)

\* The case of the weekday, k being the index of the name found: the
\* weekday is not used in determining the timestamp
WeekdayCase(line_ix, f, k) ==
    IF k = 0 THEN FieldFailed(line_ix, f)
    ELSE FieldParsed(line_ix + Len(cAbbrevDaysOfWeek[k]), f)

\* The case of the part of day
PartOfDayCase(line, line_ix, f) ==
    IF CompareAt(line, line_ix, <<"A", "M">>)
    THEN FieldParsed(line_ix + 2, [f EXCEPT !.is_pm = FALSE])
    ELSE IF CompareAt(line, line_ix, <<"P", "M">>)
    THEN FieldParsed(line_ix + 2, [f EXCEPT !.is_pm = TRUE])
    ELSE FieldFailed(line_ix, f)

\* The switch on the specifier character
ParseField(c, line, line_ix, f) ==
    CASE c = "%" ->
           IF line[line_ix + 1] # "%" THEN FieldFailed(line_ix, f)
           ELSE FieldParsed(line_ix + 1, f)
      [] c \in NumericSpecifiers ->
           NumericCase(c, line_ix, f,
               NumericField(line, line_ix, FieldLength(c), FieldPadding(c)))
      [] c \in {"B", "b", "a", "p"} /\ CompareThrows(line, line_ix) ->
           FieldThrew(line_ix, f)
      [] c = "B" /\ ~CompareThrows(line, line_ix) ->
           MonthNameCase(cMonthNames, line_ix, f,
                         FindName(line, line_ix, cMonthNames))
      [] c = "b" /\ ~CompareThrows(line, line_ix) ->
           MonthNameCase(cAbbrevMonthNames, line_ix, f,
                         FindName(line, line_ix, cAbbrevMonthNames))
      [] c = "a" /\ ~CompareThrows(line, line_ix) ->
           WeekdayCase(line_ix, f, FindName(line, line_ix, cAbbrevDaysOfWeek))
      [] c = "p" /\ ~CompareThrows(line, line_ix) ->
           PartOfDayCase(line, line_ix, f)
      [] OTHER -> FieldFailed(line_ix, f)

\* What the loop over the format string leaves
LoopResult(ok, format_ix, line_ix, f) ==
    [ok |-> ok, thrown |-> "none", format_ix |-> format_ix,
     line_ix |-> line_ix, f |-> f]

\* The loop over the format string; it ends when the format or the line is
\* used up, or with ok = FALSE at the first mismatch.  AfterField is the end
\* of an iteration that parsed a field, r being what the switch left.
RECURSIVE ParseLoop(_, _, _, _, _, _)
AfterField(m_format, line, format_ix, line_ix, f, r) ==
    IF r.thrown # "none"
    THEN [LoopResult(FALSE, format_ix, line_ix, f) EXCEPT !.thrown = r.thrown]
    ELSE IF ~r.ok THEN LoopResult(FALSE, format_ix, line_ix, f)
    ELSE ParseLoop(m_format, line, format_ix + 1, r.line_ix, FALSE, r.f)

ParseLoop(m_format, line, format_ix, line_ix, is_specifier, f) ==
    IF ~(format_ix < Len(m_format) /\ line_ix < Len(line))
    THEN LoopResult(TRUE, format_ix, line_ix, f)
    ELSE IF is_specifier
    THEN AfterField(m_format, line, format_ix, line_ix, f,
                    ParseField(m_format[format_ix + 1], line, line_ix, f))
    ELSE IF m_format[format_ix + 1] = "%"
    THEN ParseLoop(m_format, line, format_ix + 1, line_ix, TRUE, f)
    ELSE IF m_format[format_ix + 1] # line[line_ix + 1]
    THEN LoopResult(FALSE, format_ix, line_ix, f)
    ELSE ParseLoop(m_format, line, format_ix + 1, line_ix + 1, FALSE, f)

\* A faulty 12-hour conversion: 12 is treated as any other hour
To24Hour_TwelveAsOther(hour, uses_12_hour_clock, is_pm) ==
    IF uses_12_hour_clock /\ is_pm THEN hour + 12 ELSE hour

\* Process parsed fields: the hour on the 24-hour clock
To24Hour(hour, uses_12_hour_clock, is_pm) ==
    IF uses_12_hour_clock
    THEN IF hour = 12 THEN (IF ~is_pm THEN 0 ELSE hour)
         ELSE (IF is_pm THEN hour + 12 ELSE hour)
    ELSE hour

\* The time point of the parsed fields, as milliseconds since the epoch
TimestampOf(f, hour) ==
    EpochMs(DaysFromCivil(f.year, f.month, f.date),
            hour * 3600000 + f.minute * 60000 + f.second * 1000
                + f.millisecond)

\* A faulty end of parse_timestamp: the test that the whole format string
\* was used is left out
ParseEnd_FormatNotChecked(m_format, b, r, unchanged) ==
    IF r.thrown # "none" THEN [unchanged EXCEPT !.thrown = r.thrown]
    ELSE IF ~r.ok THEN unchanged
    ELSE IF ~YearMonthDayOk(r.f.year, r.f.month, r.f.date) THEN unchanged
    ELSE [ret |-> TRUE,
          thrown |-> "none",
          timestamp |->
              TimestampOf(r.f, To24Hour(r.f.hour, r.f.uses_12_hour_clock,
                                        r.f.is_pm)),
          timestamp_begin_pos |-> b.line_ix,
          timestamp_end_pos |-> r.line_ix]

\* The end of parse_timestamp: b is what the search for the beginning of
\* the timestamp left, r what the loop over the format left, unchanged the
\* caller's variables as they were
ParseEnd(m_format, b, r, unchanged) ==
    IF r.thrown # "none" THEN [unchanged EXCEPT !.thrown = r.thrown]
    ELSE IF ~r.ok THEN unchanged
    ELSE IF r.format_ix < Len(m_format) THEN unchanged
    ELSE IF ~YearMonthDayOk(r.f.year, r.f.month, r.f.date) THEN unchanged
    ELSE [ret |-> TRUE,
          thrown |-> "none",
          timestamp |->
              TimestampOf(r.f, To24Hour(r.f.hour, r.f.uses_12_hour_clock,
                                        r.f.is_pm)),
          timestamp_begin_pos |-> b.line_ix,
          timestamp_end_pos |-> r.line_ix]

\* A faulty parse_timestamp: the positions are written before the format
\* is known to have matched
ParseFrom_PositionsWrittenEarly(p, line, b, unchanged) ==
    IF b.num_spaces_found < p.m_num_spaces_before_ts THEN unchanged
    ELSE ParseEnd(p.m_format, b,
                  ParseLoop(p.m_format, line, 0, b.line_ix, FALSE,
                            InitialFields),
                  [unchanged EXCEPT !.timestamp_begin_pos = b.line_ix])

ParseFrom(p, line, b, unchanged) ==
    IF b.num_spaces_found < p.m_num_spaces_before_ts THEN unchanged
    ELSE ParseEnd(p.m_format, b,
                  ParseLoop(p.m_format, line, 0, b.line_ix, FALSE,
                            InitialFields),
                  unchanged)

\* parse_timestamp of pattern p on line.  timestamp, timestamp_begin_pos and
\* timestamp_end_pos are the caller's variables (passed by reference): the
\* result holds their values after the call, and the exception thrown, if
\* any.
parse_timestamp(p, line, timestamp, timestamp_begin_pos, timestamp_end_pos) ==
    ParseFrom(p, line,
              FindTimestampBegin(line, p.m_num_spaces_before_ts, 0, 0),
              [ret |-> FALSE, thrown |-> "none", timestamp |-> timestamp,
               timestamp_begin_pos |-> timestamp_begin_pos,
               timestamp_end_pos |-> timestamp_end_pos])

(***************************************************************************)
(* TimestampPattern::init and search_known_ts_patterns                     *)
(***************************************************************************)
\* A TimestampPattern object
Pattern(n, fmt) == [m_num_spaces_before_ts |-> n, m_format |-> fmt]

\* The vector of patterns init() first creates, in order
PatternsVector ==
    << Pattern(0, <<"%","Y","-","%","m","-","%","d","T","%","H",":","%","M",":","%","S",".","%","3">>),
       Pattern(0, <<"%","Y","-","%","m","-","%","d","T","%","H",":","%","M",":","%","S",",","%","3">>),
       Pattern(0, <<"[","%","Y","-","%","m","-","%","d","T","%","H",":","%","M",":","%","S">>),
       Pattern(0, <<"[","%","Y","%","m","%","d","-","%","H",":","%","M",":","%","S","]">>),
       Pattern(0, <<"%","Y","-","%","m","-","%","d"," ","%","H",":","%","M",":","%","S",",","%","3">>),
       Pattern(0, <<"%","Y","-","%","m","-","%","d"," ","%","H",":","%","M",":","%","S",".","%","3">>),
       Pattern(0, <<"[","%","Y","-","%","m","-","%","d"," ","%","H",":","%","M",":","%","S",",","%","3","]">>),
       Pattern(0, <<"%","Y","-","%","m","-","%","d"," ","%","H",":","%","M",":","%","S">>),
       Pattern(1, <<"%","Y","-","%","m","-","%","d"," "," ","%","H",":","%","M",":","%","S">>),
       Pattern(0, <<"%","Y","/","%","m","/","%","d"," ","%","H",":","%","M",":","%","S">>),
       Pattern(0, <<"%","y","/","%","m","/","%","d"," ","%","H",":","%","M",":","%","S">>),
       Pattern(0, <<"%","y","%","m","%","d"," ","%","k",":","%","M",":","%","S">>),
       Pattern(0, <<"%","d"," ","%","b"," ","%","Y"," ","%","H",":","%","M",":","%","S",",","%","3">>),
       Pattern(0, <<"%","b"," ","%","d",","," ","%","Y"," ","%","l",":","%","M",":","%","S"," ","%","p">>),
       Pattern(0, <<"%","B"," ","%","d",","," ","%","Y"," ","%","H",":","%","M">>),
       Pattern(1, <<"[","%","d","/","%","b","/","%","Y",":","%","H",":","%","M",":","%","S">>),
       Pattern(3, <<"[","%","d","/","%","b","/","%","Y",":","%","H",":","%","M",":","%","S">>),
       Pattern(3, <<"[","%","d","/","%","m","/","%","Y",":","%","H",":","%","M",":","%","S">>),
       Pattern(2, <<"%","Y","-","%","m","-","%","d"," ","%","H",":","%","M",":","%","S",",","%","3">>),
       Pattern(6, <<"%","Y","-","%","m","-","%","d"," ","%","H",":","%","M",":","%","S">>),
       Pattern(1, <<"%","Y","-","%","m","-","%","d"," ","%","H",":","%","M",":","%","S">>),
       Pattern(4, <<"%","a"," ","%","b"," ","%","e"," ","%","H",":","%","M",":","%","S"," ","%","Y">>),
       Pattern(0, <<"<","<","<","%","Y","-","%","m","-","%","d"," ","%","H",":","%","M",":","%","S",":","%","3">>),
       Pattern(0, <<"%","b"," ","%","d"," ","%","H",":","%","M",":","%","S">>) >>

\* A faulty catalog order: the plain "%Y-%m-%d %H:%M:%S" entry moved to the
\* front, before the entries with brackets and milliseconds
KnownPatterns_PlainFirst ==
    <<PatternsVector[8]>> \o SubSeq(PatternsVector, 1, 7)
        \o SubSeq(PatternsVector, 9, Len(PatternsVector))

\* m_known_ts_patterns as init() leaves it: the vector's contents, copied
KnownPatterns == PatternsVector

\* The null pattern pointer; a non-null one is the index i of
\* &m_known_ts_patterns[i]
nullptr == -1

\* The loop of search_known_ts_patterns from index i on.  Every
\* parse_timestamp call is handed the caller's three variables; r is what
\* the call at index i left.
RECURSIVE SearchFrom(_, _, _, _, _, _)
AfterParse(patterns, i, line, r) ==
    IF r.thrown # "none" THEN [r EXCEPT !.ret = nullptr]
    ELSE IF r.ret THEN [r EXCEPT !.ret = i]
    ELSE SearchFrom(patterns, i + 1, line, r.timestamp,
                    r.timestamp_begin_pos, r.timestamp_end_pos)

SearchFrom(patterns, i, line, timestamp, timestamp_begin_pos, timestamp_end_pos) ==
    IF ~(i < Len(patterns))
    THEN [ret |-> nullptr, thrown |-> "none", timestamp |-> timestamp,
          timestamp_begin_pos |-> npos, timestamp_end_pos |-> npos]
    ELSE AfterParse(patterns, i, line,
                    parse_timestamp(patterns[i + 1], line, timestamp,
                                    timestamp_begin_pos, timestamp_end_pos))

\* A faulty search: the loop starts at the second entry
search_known_ts_patterns_FromSecond(patterns, line, timestamp, timestamp_begin_pos, timestamp_end_pos) ==
    SearchFrom(patterns, 1, line, timestamp, timestamp_begin_pos,
               timestamp_end_pos)

\* A faulty search: with no pattern to try, the positions are left alone
search_known_ts_patterns_EmptyCatalogSkipped(patterns, line, timestamp, timestamp_begin_pos, timestamp_end_pos) ==
    IF Len(patterns) = 0
    THEN [ret |-> nullptr, thrown |-> "none", timestamp |-> timestamp,
          timestamp_begin_pos |-> timestamp_begin_pos,
          timestamp_end_pos |-> timestamp_end_pos]
    ELSE SearchFrom(patterns, 0, line, timestamp, timestamp_begin_pos,
                    timestamp_end_pos)

search_known_ts_patterns(patterns, line, timestamp, timestamp_begin_pos, timestamp_end_pos) ==
    SearchFrom(patterns, 0, line, timestamp, timestamp_begin_pos,
               timestamp_end_pos)

(***************************************************************************)
(* TimestampPattern::insert_formatted_timestamp                            *)
(***************************************************************************)
\* Separate parts of timestamp
PartsFrom(timestamp, ymd) ==
    [day_of_week_ix |-> WeekdayIndex(timestamp.d),
     date |-> ymd.day, month |-> ymd.month, year |-> ymd.year,
     hour |-> timestamp.ms \div 3600000,
     minute |-> (timestamp.ms \div 60000) % 60,
     second |-> (timestamp.ms \div 1000) % 60,
     millisecond |-> timestamp.ms % 1000]

PartsOf(timestamp) == PartsFrom(timestamp, CivilFromDays(timestamp.d))

\* %y: the year in its century
YearInCentury(year) == IF year >= 2000 THEN year - 2000 ELSE year - 1900

\* A faulty %I and %l: 12 subtracted from every hour above 12
Hour12_AboveTwelve(hour) ==
    IF hour = 0 THEN 12 ELSE IF hour > 12 THEN hour - 12 ELSE hour

\* %I and %l: the hour on the 12-hour clock
Hour12(hour) ==
    IF hour = 0 THEN 12 ELSE IF hour > 13 THEN hour - 12 ELSE hour

\* %p
PartOfDay(hour) == IF hour > 11 THEN <<"P", "M">> ELSE <<"A", "M">>

\* The value a numeric specifier appends
FieldValue(c, parts) ==
    CASE c = "y" -> YearInCentury(parts.year)
      [] c = "Y" -> parts.year
      [] c = "m" -> parts.month
      [] c \in {"d", "e"} -> parts.date
      [] c \in {"H", "k"} -> parts.hour
      [] c \in {"I", "l"} -> Hour12(parts.hour)
      [] c = "M" -> parts.minute
      [] c = "S" -> parts.second
      [] c = "3" -> parts.millisecond

\* The text a specifier that is not numeric appends
FieldText(c, parts) ==
    CASE c = "%" -> <<"%">>
      [] c = "B" -> cMonthNames[parts.month]
      [] c = "b" -> cAbbrevMonthNames[parts.month]
      [] c = "a" -> cAbbrevDaysOfWeek[parts.day_of_week_ix + 1]
      [] c = "p" -> PartOfDay(parts.hour)

\* A faulty switch: an unknown specifier is copied to the message
FormatField_UnknownCopied(c, parts, new_msg) ==
    IF c \in NumericSpecifiers
    THEN append_padded_value(FieldValue(c, parts), FieldPadding(c),
                             FieldLength(c), new_msg)
    ELSE IF c \in {"%", "B", "b", "a", "p"}
    THEN [thrown |-> "none", str |-> new_msg \o FieldText(c, parts)]
    ELSE [thrown |-> "none", str |-> Append(new_msg, c)]

\* The switch on the specifier character: new_msg with the field appended,
\* or what the case throws
FormatField(c, parts, new_msg) ==
    IF c \in NumericSpecifiers
    THEN append_padded_value(FieldValue(c, parts), FieldPadding(c),
                             FieldLength(c), new_msg)
    ELSE IF c \in {"%", "B", "b", "a", "p"}
    THEN [thrown |-> "none", str |-> new_msg \o FieldText(c, parts)]
    ELSE [thrown |-> "Unsupported", str |-> new_msg]

\* The loop over the format string.  AfterFormat is the end of an iteration
\* that formatted a field, r being what the switch left.
RECURSIVE FormatLoop(_, _, _, _, _)
AfterFormat(m_format, format_ix, parts, r) ==
    IF r.thrown # "none" THEN r
    ELSE FormatLoop(m_format, format_ix + 1, FALSE, parts, r.str)

FormatLoop(m_format, format_ix, is_specifier, parts, new_msg) ==
    IF ~(format_ix < Len(m_format))
    THEN [thrown |-> "none", str |-> new_msg]
    ELSE IF is_specifier
    THEN AfterFormat(m_format, format_ix, parts,
                     FormatField(m_format[format_ix + 1], parts, new_msg))
    ELSE IF m_format[format_ix + 1] = "%"
    THEN FormatLoop(m_format, format_ix + 1, TRUE, parts, new_msg)
    ELSE FormatLoop(m_format, format_ix + 1, FALSE, parts,
                    Append(new_msg, m_format[format_ix + 1]))

\* str.substr(from): the characters of str from index from (from 0) on
SubstrFrom(str, from) == SubSeq(str, from + 1, Len(str))

\* The end of insert_formatted_timestamp: r is what the loop over the
\* format left; msg is assigned only here, at the very end
InsertEnd(msg, ts_begin_ix, r) ==
    IF r.thrown # "none" THEN [thrown |-> r.thrown, msg |-> msg]
    ELSE [thrown |-> "none", msg |-> r.str \o SubstrFrom(msg, ts_begin_ix)]

\* A faulty insert_formatted_timestamp: the spaces found are not compared
\* with the spaces the pattern asks for
InsertFrom_SpacesNotCompared(p, timestamp, msg, b) ==
    InsertEnd(msg, b.line_ix,
              FormatLoop(p.m_format, 0, FALSE, PartsOf(timestamp),
                         SubSeq(msg, 1, b.line_ix)))

\* b is what the search for the place of the timestamp left
InsertFrom(p, timestamp, msg, b) ==
    IF b.num_spaces_found < p.m_num_spaces_before_ts
    THEN [thrown |-> "Failure", msg |-> msg]
    ELSE InsertEnd(msg, b.line_ix,
                   FormatLoop(p.m_format, 0, FALSE, PartsOf(timestamp),
                              SubSeq(msg, 1, b.line_ix)))

\* insert_formatted_timestamp of pattern p: the exception it throws, if any,
\* and msg after the call
insert_formatted_timestamp(p, timestamp, msg) ==
    InsertFrom(p, timestamp, msg,
               FindTimestampBegin(msg, p.m_num_spaces_before_ts, 0, 0))

(***************************************************************************)
(* The callers' inputs: the patterns a caller may hold, the lines it reads *)
(* and the timestamps it formats                                           *)
(***************************************************************************)
\* The largest field values the written lines try (one past the largest
\* the parser accepts)
MaxMonth == 13
MaxDay == 32
MaxHour == 24
MaxHour12 == 13
MaxMinute == 60
MaxSecond == 61

\* The catalog entries and three patterns a caller constructs itself: a
\* zero-padded 12-hour clock, a literal percent sign, an unknown specifier
CallerPatterns ==
    KnownPatterns \o
    << Pattern(0, <<"%","I",":","%","M",":","%","S"," ","%","p">>),
       Pattern(0, <<"%","m","%","%","%","d"," ","%","l","%","p">>),
       Pattern(0, <<"%","H",":","%","M"," ","%","Z">>) >>

\* Whether the format has the specifier %c
Has(fmt, c) == \E i \in 1..(Len(fmt) - 1) : fmt[i] = "%" /\ fmt[i + 1] = c

\* The field values a line is written from.  hour is the 24-hour field,
\* hour12 and part_of_day the 12-hour one; weekday is the text of %a.
BaseStamp ==
    [kind |-> "stamp", year |-> 2015, month |-> 2, date |-> 1, hour |-> 1,
     hour12 |-> 1, part_of_day |-> <<"A", "M">>, minute |-> 2, second |-> 3,
     millisecond |-> 4, weekday |-> <<"S", "u", "n">>]

\* The stamp of a line that was not written from field values
NoStamp == [BaseStamp EXCEPT !.kind = "none"]

\* value in decimal, padded on the left to width characters
Padded(value, width, padding_character) ==
    LET digits == to_string(value)
    IN  IF Len(digits) >= width THEN digits
        ELSE Repeat(padding_character, width - Len(digits)) \o digits

\* The text of one field of a stamp
WriteField(c, s) ==
    CASE c = "%" -> <<"%">>
      [] c = "y" -> Padded(s.year % 100, 2, "0")
      [] c = "Y" -> Padded(s.year, 4, "0")
      [] c = "B" -> IF s.month \in 1..12 THEN cMonthNames[s.month]
                    ELSE <<"S", "m", "a", "r", "c", "h">>
      [] c = "b" -> IF s.month \in 1..12 THEN cAbbrevMonthNames[s.month]
                    ELSE <<"S", "m", "a">>
      [] c = "m" -> Padded(s.month, 2, "0")
      [] c = "d" -> Padded(s.date, 2, "0")
      [] c = "e" -> Padded(s.date, 2, " ")
      [] c = "a" -> s.weekday
      [] c = "p" -> s.part_of_day
      [] c = "H" -> Padded(s.hour, 2, "0")
      [] c = "k" -> Padded(s.hour, 2, " ")
      [] c = "I" -> Padded(s.hour12, 2, "0")
      [] c = "l" -> Padded(s.hour12, 2, " ")
      [] c = "M" -> Padded(s.minute, 2, "0")
      [] c = "S" -> Padded(s.second, 2, "0")
      [] c = "3" -> Padded(s.millisecond, 3, "0")
      [] OTHER -> <<"?">>

\* The text of a stamp in a format
RECURSIVE WriteStamp(_, _, _)
WriteStamp(fmt, ix, s) ==
    IF ix > Len(fmt) THEN <<>>
    ELSE IF fmt[ix] = "%" /\ ix < Len(fmt)
    THEN WriteField(fmt[ix + 1], s) \o WriteStamp(fmt, ix + 2, s)
    ELSE <<fmt[ix]>> \o WriteStamp(fmt, ix + 1, s)

\* The text before the timestamp: n words, each followed by one space
RECURSIVE Words(_)
Words(n) == IF n = 0 THEN <<>> ELSE <<"w", " ">> \o Words(n - 1)

\* The text after the timestamp
Rest == <<" ","r","e","s","t">>

\* A line with the stamp s written in the format of pattern p
WrittenLine(p, s) ==
    Words(p.m_num_spaces_before_ts) \o WriteStamp(p.m_format, 1, s) \o Rest

\* The dates tried: the ends of February in leap and non-leap years, the
\* 31st of every month, and values just outside each field's range
Dates ==
    {<<y, 2, d>> : y \in {1900, 2000, 2015, 2016}, d \in {28, 29, 30}}
        \cup {<<2015, m, 31>> : m \in 1..12}
        \cup {<<2015, 2, 0>>, <<2015, 2, MaxDay>>, <<2015, 0, 1>>,
              <<2015, MaxMonth, 1>>, <<0, 1, 1>>, <<9999, 12, 31>>}

\* The stamps tried with a format: the base stamp with one group of fields
\* varied, for each group the format has
StampsFor(fmt) ==
    {BaseStamp}
    \cup {[BaseStamp EXCEPT !.year = t[1], !.month = t[2], !.date = t[3]] :
             t \in Dates}
    \cup (IF Has(fmt, "y")
          THEN {[BaseStamp EXCEPT !.year = y] : y \in 1969..2068} ELSE {})
    \cup (IF Has(fmt, "H") \/ Has(fmt, "k")
          THEN {[BaseStamp EXCEPT !.hour = h] :
                   h \in {0, 9, 10, 11, 12, 13, 23} \cup {MaxHour}}
          ELSE {})
    \cup (IF Has(fmt, "I") \/ Has(fmt, "l")
          THEN {[BaseStamp EXCEPT !.hour12 = h, !.part_of_day = pd] :
                   h \in (0..MaxHour12) \cup {20, 99},
                   pd \in {<<"A", "M">>, <<"P", "M">>, <<"a", "m">>}}
          ELSE {})
    \cup (IF Has(fmt, "S")
          THEN {[BaseStamp EXCEPT !.minute = m, !.second = x] :
                   m \in {3, 59} \cup {MaxMinute},
                   x \in {0, 59, 60} \cup {MaxSecond}}
               \cup {[BaseStamp EXCEPT !.second = x] :
                         x \in (0..MaxSecond) \cup {75, 99}}
          ELSE {})
    \cup {[BaseStamp EXCEPT !.millisecond = x] : x \in {0, 999}}
    \cup (IF Has(fmt, "a")
          THEN {[BaseStamp EXCEPT !.weekday = w] :
                   w \in {cAbbrevDaysOfWeek[i] : i \in 1..cNumDaysInWeek}
                         \cup {<<"s","u","n">>, <<"S","u","m">>, <<"S","u","n","d","a","y">>}}
          ELSE {})

\* The lines of the catalog test, in the order of the test
TestLines ==
    << <<"2","0","1","5","-","0","2","-","0","1","T","0","1",":","0","2",":","0","3",".","0","0","4"," ","c","o","n","t","e","n","t"," ","a","f","t","e","r">>,
       <<"2","0","1","5","-","0","2","-","0","1","T","0","1",":","0","2",":","0","3",",","0","0","4"," ","c","o","n","t","e","n","t"," ","a","f","t","e","r">>,
       <<"[","2","0","1","5","-","0","2","-","0","1","T","0","1",":","0","2",":","0","3"," ","c","o","n","t","e","n","t"," ","a","f","t","e","r">>,
       <<"[","2","0","1","5","0","2","0","1","-","0","1",":","0","2",":","0","3","]"," ","c","o","n","t","e","n","t"," ","a","f","t","e","r">>,
       <<"2","0","1","5","-","0","2","-","0","1"," ","0","1",":","0","2",":","0","3",",","0","0","4"," ","c","o","n","t","e","n","t"," ","a","f","t","e","r">>,
       <<"2","0","1","5","-","0","2","-","0","1"," ","0","1",":","0","2",":","0","3",".","0","0","4"," ","c","o","n","t","e","n","t"," ","a","f","t","e","r">>,
       <<"[","2","0","1","5","-","0","2","-","0","1"," ","0","1",":","0","2",":","0","3",",","0","0","4","]"," ","c","o","n","t","e","n","t"," ","a","f","t","e","r">>,
       <<"2","0","1","5","-","0","2","-","0","1"," ","0","1",":","0","2",":","0","3"," ","c","o","n","t","e","n","t"," ","a","f","t","e","r">>,
       <<"2","0","1","5","/","0","2","/","0","1"," ","0","1",":","0","2",":","0","3"," ","c","o","n","t","e","n","t"," ","a","f","t","e","r">>,
       <<"1","5","/","0","2","/","0","1"," ","0","1",":","0","2",":","0","3"," ","c","o","n","t","e","n","t"," ","a","f","t","e","r">>,
       <<"1","5","0","2","0","1"," "," ","1",":","0","2",":","0","3"," ","c","o","n","t","e","n","t"," ","a","f","t","e","r">>,
       <<"0","1"," ","F","e","b"," ","2","0","1","5"," ","0","1",":","0","2",":","0","3",",","0","0","4"," ","c","o","n","t","e","n","t"," ","a","f","t","e","r">>,
       <<"F","e","b"," ","0","1",","," ","2","0","1","5"," "," ","1",":","0","2",":","0","3"," ","A","M"," ","c","o","n","t","e","n","t"," ","a","f","t","e","r">>,
       <<"F","e","b","r","u","a","r","y"," ","0","1",","," ","2","0","1","5"," ","0","1",":","0","2"," ","c","o","n","t","e","n","t"," ","a","f","t","e","r">>,
       <<"E"," ","[","0","1","/","F","e","b","/","2","0","1","5",":","0","1",":","0","2",":","0","3"," ","c","o","n","t","e","n","t"," ","a","f","t","e","r">>,
       <<"l","o","c","a","l","h","o","s","t"," ","-"," ","-"," ","[","0","1","/","F","e","b","/","2","0","1","5",":","0","1",":","0","2",":","0","3"," ","c","o","n","t","e","n","t"," ","a","f","t","e","r">>,
       <<"I","N","F","O"," ","[","m","a","i","n","]"," ","2","0","1","5","-","0","2","-","0","1"," ","0","1",":","0","2",":","0","3",",","0","0","4"," ","c","o","n","t","e","n","t"," ","a","f","t","e","r">>,
       <<"S","t","a","r","t","e","d"," ","P","O","S","T"," ","\"","/","a","p","i","/","v","3","/","i","n","t","e","r","n","a","l","/","a","l","l","o","w","e","d","\""," ","f","o","r"," ","1","2","7",".","0",".","0",".","1"," ","a","t"," ","2","0","1","5","-","0","2","-","0","1"," ","0","1",":","0","2",":","0","3"," ","c","o","n","t","e","n","t"," ","a","f","t","e","r">>,
       <<"u","p","d","a","t","e","-","a","l","t","e","r","n","a","t","i","v","e","s"," ","2","0","1","5","-","0","2","-","0","1"," ","0","1",":","0","2",":","0","3"," ","c","o","n","t","e","n","t"," ","a","f","t","e","r">>,
       <<"E","R","R","O","R",":"," ","a","p","p","o","r","t"," ","(","p","i","d"," ","4","5","5","7",")"," ","S","u","n"," ","F","e","b"," "," ","1"," ","0","1",":","0","2",":","0","3"," ","2","0","1","5"," ","c","o","n","t","e","n","t"," ","a","f","t","e","r">>,
       <<"<","<","<","2","0","1","5","-","0","2","-","0","1"," ","0","1",":","0","2",":","0","3",":","0","0","4"," ","c","o","n","t","e","n","t"," ","a","f","t","e","r">> >>

\* The line of the scenario table that the test does not have
ScenarioLine == <<"E","R","R","O","R",":"," ","a","p","p","o","r","t"," ","(","p","i","d"," ","4","5","5","7",")"," ","S","u","n"," ","F","e","b"," "," ","1"," ","0","1",":","0","2",":","0","3"," ","2","0","1","5"," ","a","f","t","e","r">>

\* The characters an edited line gets in place of one of its own
EditChars == {"x", " ", "0"}

\* The lines made from line by cutting it short or changing one character
EditedLines(line) ==
    {SubSeq(line, 1, k) : k \in 0..(Len(line) - 1)}
        \cup {[line EXCEPT ![i] = c] : i \in 1..Len(line), c \in EditChars}

\* The days and the times of day of the timestamps that are formatted
EpochDays ==
    {DaysFromCivil(1969, 12, 31), DaysFromCivil(1970, 1, 1),
     DaysFromCivil(2015, 2, 1), DaysFromCivil(2016, 2, 29),
     DaysFromCivil(2068, 12, 31), DaysFromCivil(2069, 1, 1),
     DaysFromCivil(2099, 12, 31), DaysFromCivil(2100, 1, 1)}

\* 01:02:03.004, the time of day of the test lines
BaseTimeOfDay == 1 * 3600000 + 2 * 60000 + 3 * 1000 + 4

Epochs ==
    {EpochMs(d, BaseTimeOfDay) : d \in EpochDays}
        \cup {EpochMs(DaysFromCivil(2015, 2, 1), h * 3600000 + 123004) :
                 h \in 0..23}
        \cup {EpochMs(DaysFromCivil(2015, 2, 1), ms) : ms \in {0, MsPerDay - 1}}

\* The messages a timestamp is inserted into: one with the spaces the
\* pattern asks for and, when it asks for any, one with one space too few
Messages(p) ==
    {Words(p.m_num_spaces_before_ts) \o Rest}
        \cup (IF p.m_num_spaces_before_ts > 0
              THEN {Words(p.m_num_spaces_before_ts - 1) \o <<"w">>} ELSE {})

(***************************************************************************)
(* Archive::FileGroupIdAndEndTimestampLTSetComparator                      *)
(* (src/src/streaming_archive/writer/Archive.hpp)                          *)
(***************************************************************************)
\* The characters of the paths, in the order of their codes
PathChars == <<"/", "a", "b">>

\* The code of the character c
CharCode(c) == CHOOSE i \in 1..Len(PathChars) : PathChars[i] = c

\* lhs < rhs of two std::string: the first character that differs decides,
\* and a string is greater than each of its proper prefixes
RECURSIVE StringLess(_, _)
StringLess(lhs, rhs) ==
    IF rhs = <<>> THEN FALSE
    ELSE IF lhs = <<>> THEN TRUE
    ELSE IF Head(lhs) # Head(rhs)
         THEN CharCode(Head(lhs)) < CharCode(Head(rhs))
    ELSE StringLess(Tail(lhs), Tail(rhs))

\* A faulty comparator: files of one group and one end timestamp are told
\* apart by their ids alone
FileGroupIdAndEndTimestampLTSetComparator_PathsNotCompared(lhs, rhs) ==
    IF lhs.group_id # rhs.group_id THEN lhs.group_id < rhs.group_id
    ELSE IF lhs.end_ts # rhs.end_ts THEN lhs.end_ts < rhs.end_ts
    ELSE lhs.id < rhs.id

\* FileGroupIdAndEndTimestampLTSetComparator::operator() (lhs, rhs)
FileGroupIdAndEndTimestampLTSetComparator(lhs, rhs) ==
    IF lhs.group_id # rhs.group_id THEN lhs.group_id < rhs.group_id
    ELSE IF lhs.end_ts # rhs.end_ts THEN lhs.end_ts < rhs.end_ts
    ELSE IF lhs.orig_path # rhs.orig_path
         THEN StringLess(lhs.orig_path, rhs.orig_path)
    ELSE lhs.id < rhs.id

\* std::numeric_limits<epochtime_t>::min(), the end timestamp of a file
\* without timestamps.  The model's integers are 32 bits wide: the least
\* value it uses stands for the least 64-bit one.
cEpochTimeMin == -2147483647

\* What the comparator reads of a File
FileKey(id, group_id, end_ts, orig_path) ==
    [id |-> id, group_id |-> group_id, end_ts |-> end_ts,
     orig_path |-> orig_path]

\* The files the comparator is called on
ComparedFiles ==
    {FileKey(id, group_id, end_ts, orig_path) :
        id \in {0, 1, 2},
        group_id \in {0, 1},
        end_ts \in {cEpochTimeMin, 1422752523},
        orig_path \in {<<"a">>, <<"a","/","b">>, <<"a","b">>, <<"b">>}}

\* No file before the comparator is called
NoFile == FileKey(nullptr, 0, cEpochTimeMin, <<>>)

(***************************************************************************)
(* SQLiteDB (src/src/SQLiteDB.cpp)                                         *)
(***************************************************************************)
\* The connections sqlite3_open hands out in a run
MaxHandles == 3

\* sqlite3_open(path, &m_db_handle) when num_handles connections were
\* handed out before: the return code and what it stores in the handle
\* (a connection that must still be closed, also with most errors)
sqlite3_open(num_handles) ==
    {[return_value |-> "SQLITE_OK", db_handle |-> num_handles + 1],
     [return_value |-> "SQLITE_CANTOPEN", db_handle |-> num_handles + 1],
     [return_value |-> "SQLITE_NOMEM", db_handle |-> nullptr]}

\* sqlite3_close(db_handle): busy while a statement of the connection is
\* not finalized; closing a null connection does nothing
sqlite3_close(db_handle, statements) ==
    IF \E s \in statements : s.db_handle = db_handle
    THEN "SQLITE_BUSY" ELSE "SQLITE_OK"

\* A faulty close(): the handle is dropped also when the database is busy
close_HandleDroppedWhenBusy(db_handle, statements) ==
    [ret |-> sqlite3_close(db_handle, statements) # "SQLITE_BUSY",
     m_db_handle |-> nullptr]

\* A faulty close(): a busy database is reported as closed
close_TrueWhenBusy(db_handle, statements) ==
    IF sqlite3_close(db_handle, statements) = "SQLITE_BUSY"
    THEN [ret |-> TRUE, m_db_handle |-> db_handle]
    ELSE [ret |-> TRUE, m_db_handle |-> nullptr]

\* SQLiteDB::close
close(db_handle, statements) ==
    IF sqlite3_close(db_handle, statements) = "SQLITE_BUSY"
    THEN [ret |-> FALSE, m_db_handle |-> db_handle]
    ELSE [ret |-> TRUE, m_db_handle |-> nullptr]

\* A faulty open(): the connection of a failed sqlite3_open is kept
open_NotClosedOnFailure(opened, statements) ==
    IF opened.return_value # "SQLITE_OK"
    THEN [thrown |-> "Failure", closed |-> FALSE,
          m_db_handle |-> opened.db_handle, close_ret |-> FALSE]
    ELSE [thrown |-> "none", closed |-> FALSE,
          m_db_handle |-> opened.db_handle, close_ret |-> FALSE]

\* SQLiteDB::open after sqlite3_open gave opened
open(opened, statements) ==
    IF opened.return_value # "SQLITE_OK"
    THEN [thrown |-> "Failure", closed |-> TRUE,
          m_db_handle |-> close(opened.db_handle, statements).m_db_handle,
          close_ret |-> close(opened.db_handle, statements).ret]
    ELSE [thrown |-> "none", closed |-> FALSE,
          m_db_handle |-> opened.db_handle, close_ret |-> FALSE]

\* SQLitePreparedStatement(statement, db_handle)
SQLitePreparedStatement(statement, db_handle) ==
    [statement |-> statement, db_handle |-> db_handle]

\* No statement
NoStatement == SQLitePreparedStatement("", nullptr)

\* SQLiteDB::prepare_statement
prepare_statement(db_handle, statement) ==
    IF nullptr = db_handle
    THEN [thrown |-> "NotInit", prepared |-> NoStatement]
    ELSE [thrown |-> "none",
          prepared |-> SQLitePreparedStatement(statement, db_handle)]

\* The statements the callers prepare
Statements == {"BEGIN TRANSACTION", "END TRANSACTION"}

\* The outcome of a call on the SQLiteDB
Outcome(call, r_ret, r_thrown, r_prepared) ==
    [call |-> call, ret |-> r_ret, thrown |-> r_thrown,
     prepared |-> r_prepared]

\* The calls of init() in a run
MaxInits == 2

(***************************************************************************)
(* streaming_archive::writer::Archive                                      *)
(* (src/src/streaming_archive/writer/Archive.hpp declares it; its          *)
(* operations follow sections 3, 4.4 and 4.6 of the specification)         *)
(***************************************************************************)
\* The files of an archive, the messages of a file and the size at which
\* a segment is sealed
MaxFiles == 2

MaxMessages == 2

m_target_segment_uncompressed_size == 3

\* The timestamps of the messages; cEpochTimeMin for a message without one
MessageTimestamps == {cEpochTimeMin, 1422752523}

\* A new file: no message, no timestamp
NewFile(id, path, group_id, in_memory) ==
    [id |-> id, orig_path |-> path, group_id |-> group_id,
     in_memory |-> in_memory, begin_ts |-> cEpochTimeMin,
     end_ts |-> cEpochTimeMin, num_messages |-> 0,
     num_uncompressed_bytes |-> 0]

\* The file after a message was written to it (section 4.4, step 4)
WithMessage(file, ts, num_uncompressed_bytes) ==
    [file EXCEPT
        !.begin_ts = IF ts = cEpochTimeMin THEN @
                     ELSE IF @ = cEpochTimeMin \/ ts < @ THEN ts ELSE @,
        !.end_ts = IF ts > @ THEN ts ELSE @,
        !.num_messages = @ + 1,
        !.num_uncompressed_bytes = @ + num_uncompressed_bytes]

\* A faulty routing: a file goes by whether it has messages
HasTimestamps_ByMessages(file) == file.num_messages > 0

\* Files are routed by whether end_ts != MIN
HasTimestamps(file) == file.end_ts # cEpochTimeMin

\* append_file_to_segment: the size of the segment and its files after
AppendedSegment(file, segment, files_in_segment) ==
    [segment |-> segment + file.num_uncompressed_bytes,
     files_in_segment |-> Append(files_in_segment, file.id)]

\* The rows of the files table for the files of a sealed segment
FileRows(files_in_segment, segment_id) ==
    {[file_id |-> files_in_segment[i], segment_id |-> segment_id] :
        i \in 1..Len(files_in_segment)}

\* What sealing writes: the segments written out, the next segment id and
\* the files table
Written(written_segments, next_segment_id, metadata_db) ==
    [segments |-> written_segments, m_next_segment_id |-> next_segment_id,
     m_metadata_db |-> metadata_db]

\* A sealed segment
SealedSegment(segment_id, with_timestamps, files_in_segment) ==
    [id |-> segment_id, with_timestamps |-> with_timestamps,
     files |-> files_in_segment]

\* A faulty sealing: the metadata of the files is left for later
close_segment_and_persist_file_metadata_NotPersisted(w, with_timestamps, files_in_segment) ==
    Written(Append(w.segments,
                   SealedSegment(w.m_next_segment_id, with_timestamps,
                                 files_in_segment)),
            w.m_next_segment_id + 1,
            w.m_metadata_db)

\* close_segment_and_persist_file_metadata: the segment gets the next id
\* and is written out, and the metadata of its files is persisted
close_segment_and_persist_file_metadata(w, with_timestamps, files_in_segment) ==
    Written(Append(w.segments,
                   SealedSegment(w.m_next_segment_id, with_timestamps,
                                 files_in_segment)),
            w.m_next_segment_id + 1,
            w.m_metadata_db \cup FileRows(files_in_segment,
                                          w.m_next_segment_id))

\* seq without its elements equal to x
RECURSIVE Removed(_, _)
Removed(seq, x) ==
    IF seq = <<>> THEN <<>>
    ELSE IF Head(seq) = x THEN Removed(Tail(seq), x)
    ELSE <<Head(seq)>> \o Removed(Tail(seq), x)

(***************************************************************************)
(* State                                                                   *)
(***************************************************************************)
VARIABLES
    m_known_ts_patterns,  \* the catalog (m_known_ts_patterns_len is its Len)
    line,                 \* the line the caller has read
    stamp,                \* the field values line was written from (ghost)
    pattern,              \* the caller's TimestampPattern; empty when none
    found,                \* the pointer search_known_ts_patterns returned
    ret,                  \* what parse_timestamp returned
    timestamp,            \* the caller's epochtime_t
    timestamp_begin_pos,  \* the caller's size_t
    timestamp_end_pos,    \* the caller's size_t
    content,              \* the caller's message
    thrown,               \* the exception the last call threw, if any
    sent,                 \* the pattern and timestamp of a message (ghost)
    pc,                   \* the caller's last step
    inits                 \* the calls of init() so far (ghost)

timestampVars ==
    <<m_known_ts_patterns, line, stamp, pattern, found, ret, timestamp,
      timestamp_begin_pos, timestamp_end_pos, content, thrown, sent, pc,
      inits>>

\* The files handed to FileGroupIdAndEndTimestampLTSetComparator
VARIABLES
    file_a,               \* three files of an archive
    file_b,
    file_c,
    compared              \* what the comparator returned for their pairs

comparatorVars == <<file_a, file_b, file_c, compared>>

\* A SQLiteDB and the statements prepared from it
VARIABLES
    m_db_handle,          \* sqlite3*; nullptr when there is none
    db_num_handles,       \* the connections sqlite3_open has handed out
    db_statements,        \* the prepared statements not yet destroyed
    db_last,              \* the last call on the SQLiteDB and its outcome
    db_opened,            \* "never", "open" or "closed" (ghost)
    db_was_busy           \* a close() since the last open found it busy (ghost)

dbVars ==
    <<m_db_handle, db_num_handles, db_statements, db_last, db_opened,
      db_was_busy>>

\* An Archive that was opened
VARIABLES
    m_files,              \* the File objects, by their ids
    m_next_file_id,
    m_mutable_files,
    m_on_disk_files,
    m_released_but_dirty_files,
    m_next_segment_id,
    m_files_with_timestamps_in_segment,
    m_files_without_timestamps_in_segment,
    m_segment_for_files_with_timestamps,     \* its uncompressed size
    m_segment_for_files_without_timestamps,  \* its uncompressed size
    segments,             \* the segments written to the segments directory
    m_metadata_db,        \* the rows of the files table
    is_open               \* whether the archive was not closed yet

sealingVars == <<segments, m_next_segment_id, m_metadata_db>>

openSegmentVars ==
    <<m_files_with_timestamps_in_segment,
      m_files_without_timestamps_in_segment,
      m_segment_for_files_with_timestamps,
      m_segment_for_files_without_timestamps>>

fileVars ==
    <<m_files, m_next_file_id, m_mutable_files, m_on_disk_files,
      m_released_but_dirty_files>>

archiveVars == <<fileVars, openSegmentVars, sealingVars, is_open>>

(***************************************************************************)
(* clp::decompress: the archives directory, the iterators over it and the  *)
(* rename of the decompressed files                                        *)
(***************************************************************************)
\* Original paths of compressed files, the paths that are requested, the
\* number of archives and the number of file splits in the archives directory
OrigPathsInArchives == {"a", "b", "c"}

RequestedPaths == {"a", "b"}

MaxArchives == 2

MaxSplits == 3

\* The splits of one archive: the original path of each, in the order of
\* the archive's file iterator
SplitsUpTo(n) == UNION {[1..k -> OrigPathsInArchives] : k \in 0..n}

\* The archives directories of n archives with num_splits splits at most:
\* the archives in the order of the global metadata DB
RECURSIVE ArchivesDirsOf(_, _)
ArchivesDirsOf(n, num_splits) ==
    IF n = 0 THEN {<<>>}
    ELSE UNION {{<<splits>> \o dir :
                    dir \in ArchivesDirsOf(n - 1, num_splits - Len(splits))} :
                splits \in SplitsUpTo(num_splits)}

ArchivesDirs == ArchivesDirsOf(MaxArchives, MaxSplits)

\* Paths of the output directory: a file's wanted path P is <<P, 0>>, and
\* P.i is <<P, i>>
OutputPath(second, i) == <<second, i>>

\* The paths that may exist in the output directory before decompression
ExistingAtStart == {OutputPath("a", 0), OutputPath("a", 1)}

\* global_metadata_db.get_archive_iterator(): every archive
get_archive_iterator(dir) == [i \in 1..Len(dir) |-> i]

\* archive_reader.get_file_iterator(): every split of the open archive
get_file_iterator(splits) == [k \in 1..Len(splits) |-> k]

\* archive_reader.get_file_iterator(file_path): the splits of the file
RECURSIVE SplitsOfFrom(_, _, _)
SplitsOfFrom(splits, k, file_path) ==
    IF k > Len(splits) THEN <<>>
    ELSE IF splits[k] = file_path
         THEN <<k>> \o SplitsOfFrom(splits, k + 1, file_path)
    ELSE SplitsOfFrom(splits, k + 1, file_path)

get_file_iterator_for_path(splits, file_path) ==
    SplitsOfFrom(splits, 1, file_path)

\* global_metadata_db.get_archive_iterator_for_file_path(file_path): the
\* archives that hold a split of the file
RECURSIVE ArchivesOfFrom(_, _, _)
ArchivesOfFrom(dir, i, file_path) ==
    IF i > Len(dir) THEN <<>>
    ELSE IF SplitsOfFrom(dir[i], 1, file_path) # <<>>
         THEN <<i>> \o ArchivesOfFrom(dir, i + 1, file_path)
    ELSE ArchivesOfFrom(dir, i + 1, file_path)

get_archive_iterator_for_file_path(dir, file_path) ==
    ArchivesOfFrom(dir, 1, file_path)

\* The archive iterator and the file iterator of each branch
ArchiveIterator(dir, files) ==
    IF Cardinality(files) = 1
    THEN get_archive_iterator_for_file_path(dir, CHOOSE f \in files : TRUE)
    ELSE get_archive_iterator(dir)

FileIterator(splits, files) ==
    IF Cardinality(files) = 1
    THEN get_file_iterator_for_path(splits, CHOOSE f \in files : TRUE)
    ELSE get_file_iterator(splits)

\* A faulty skip test: no file is skipped
Skipped_Never(files, orig_path) == FALSE

\* files_to_decompress.count(orig_path) == 0 in the branch for several paths
Skipped(files, orig_path) ==
    Cardinality(files) > 1 /\ orig_path \notin files

\* The line of "return false" after a failed decompress_file, by branch
ReturnOfBranch(files) ==
    IF files = {} THEN 74 ELSE IF Cardinality(files) = 1 THEN 98 ELSE 124

\* file_decompressor.decompress_file(...) that succeeded: the temporary
\* file of the split is recorded with the path it is wanted at
decompress_file(temp_paths, archive_id, split, orig_path) ==
    temp_paths \cup {[first |-> <<archive_id, split>>, second |-> orig_path]}

\* A faulty search of the final path: the wanted path is taken as it is
RenameTarget_ExistsNotTested(second, final_path, i, existing) == final_path

\* The loop over i: while final_path exists, final_path = second.i
RECURSIVE RenameTarget(_, _, _, _)
RenameTarget(second, final_path, i, existing) ==
    IF final_path \in existing
    THEN RenameTarget(second, OutputPath(second, i), i + 1, existing)
    ELSE final_path

\* The requested files that were not found in any archive
NotFound(files, decompressed) ==
    IF files # {} THEN {file \in files : file \notin decompressed} ELSE {}

VARIABLES
    archives_dir,             \* the archives, each the paths of its splits
    files_to_decompress,      \* the requested paths
    existing_paths,           \* the paths that exist in the output directory
    global_metadata_db,       \* "closed" or "open"
    archive_ix,               \* the archives the iterator has yet to give
    file_metadata_ix,         \* the splits the iterator has yet to give
    archive_reader,           \* "closed", "open" or "refreshed"
    open_archives,            \* the archives opened and not closed (ghost)
    temp_path_to_final_path,  \* (first, second) of every decompressed split
    decompressed_files,       \* the original paths decompressed
    passed,                   \* the splits passed to decompress_file (ghost)
    renamed,                  \* the renames done (ghost)
    logged,                   \* the paths logged as not found
    returned_at,              \* the line of the return taken, 0 before
    decompress_pc             \* the position in decompress()

inputVars == <<archives_dir, files_to_decompress>>

readerVars ==
    <<global_metadata_db, archive_ix, file_metadata_ix, archive_reader,
      open_archives>>

outputVars ==
    <<existing_paths, temp_path_to_final_path, decompressed_files, passed,
      renamed, logged>>

decompressVars ==
    <<inputVars, readerVars, outputVars, returned_at, decompress_pc>>

\* Before decompress() is called
DecompressInit ==
    /\ archives_dir = <<>>
    /\ files_to_decompress = {}
    /\ existing_paths = {}
    /\ global_metadata_db = "closed"
    /\ archive_ix = <<>>
    /\ file_metadata_ix = <<>>
    /\ archive_reader = "closed"
    /\ open_archives = {}
    /\ temp_path_to_final_path = {}
    /\ decompressed_files = {}
    /\ passed = {}
    /\ renamed = {}
    /\ logged = {}
    /\ returned_at = 0
    /\ decompress_pc = "idle"

otherComponents == <<comparatorVars, dbVars, archiveVars, decompressVars>>

vars ==
    <<timestampVars, comparatorVars, dbVars, archiveVars, decompressVars>>

\* No file was compared
ComparatorInit ==
    /\ file_a = NoFile
    /\ file_b = NoFile
    /\ file_c = NoFile
    /\ compared = [done |-> FALSE, aa |-> FALSE, ab |-> FALSE, ba |-> FALSE,
                   bc |-> FALSE, ac |-> FALSE]

\* A SQLiteDB that was never opened
DBInit ==
    /\ m_db_handle = nullptr
    /\ db_num_handles = 0
    /\ db_statements = {}
    /\ db_last = Outcome("none", FALSE, "none", NoStatement)
    /\ db_opened = "never"
    /\ db_was_busy = FALSE

\* An archive right after open(): no file, two empty open segments
ArchiveInit ==
    /\ m_files = <<>>
    /\ m_next_file_id = 0
    /\ m_mutable_files = {}
    /\ m_on_disk_files = {}
    /\ m_released_but_dirty_files = <<>>
    /\ m_next_segment_id = 0
    /\ m_files_with_timestamps_in_segment = <<>>
    /\ m_files_without_timestamps_in_segment = <<>>
    /\ m_segment_for_files_with_timestamps = 0
    /\ m_segment_for_files_without_timestamps = 0
    /\ segments = <<>>
    /\ m_metadata_db = {}
    /\ is_open = TRUE

\* A default-constructed TimestampPattern (is_empty())
EmptyPattern == Pattern(0, <<>>)

NoneSent == [kind |-> "none", pattern |-> EmptyPattern,
             timestamp |-> EpochMs(0, 0)]

\* Static member default initialization, and a caller that has read nothing
Init ==
    /\ m_known_ts_patterns = <<>>
    /\ line = <<>>
    /\ stamp = NoStamp
    /\ pattern = EmptyPattern
    /\ found = nullptr
    /\ ret = FALSE
    /\ timestamp = EpochMs(0, 0)
    /\ timestamp_begin_pos = 0
    /\ timestamp_end_pos = 0
    /\ content = <<>>
    /\ thrown = "none"
    /\ sent = NoneSent
    /\ pc = "start"
    /\ inits = 0
    /\ ComparatorInit
    /\ DBInit
    /\ ArchiveInit
    /\ DecompressInit

(***************************************************************************)
(* Operations                                                              *)
(***************************************************************************)
\* A faulty init(): the patterns are added to those already there
init_AddsToCatalog ==
    /\ pc \in {"start", "line"}
    /\ inits < MaxInits
    /\ inits' = inits + 1
    /\ m_known_ts_patterns' = m_known_ts_patterns \o KnownPatterns
    /\ UNCHANGED <<line, stamp, pattern, found, ret, timestamp,
                   timestamp_begin_pos, timestamp_end_pos, content, thrown,
                   sent, pc>>
    /\ UNCHANGED otherComponents

\* TimestampPattern::init(), called any number of times before the caller
\* searches, parses or formats
init ==
    /\ pc \in {"start", "line"}
    /\ inits < MaxInits
    /\ inits' = inits + 1
    /\ m_known_ts_patterns' = KnownPatterns
    /\ UNCHANGED <<line, stamp, pattern, found, ret, timestamp,
                   timestamp_begin_pos, timestamp_end_pos, content, thrown,
                   sent, pc>>
    /\ UNCHANGED otherComponents

\* The caller holds pattern p and reads a line written in its format
ReadLineOf(p) ==
    \E s \in StampsFor(p.m_format) :
        /\ pattern' = p
        /\ stamp' = s
        /\ line' = WrittenLine(p, s)

ReadLine ==
    /\ pc = "start"
    /\ \E i \in 1..Len(CallerPatterns) : ReadLineOf(CallerPatterns[i])
    /\ pc' = "line"
    /\ UNCHANGED <<m_known_ts_patterns, found, ret, timestamp,
                   timestamp_begin_pos, timestamp_end_pos, content, thrown,
                   sent>>
    /\ UNCHANGED <<inits, otherComponents>>

\* The caller holds pattern p and reads a damaged line of its format
ReadEditedLineOf(p) ==
    /\ pattern' = p
    /\ line' \in EditedLines(WrittenLine(p, BaseStamp))

ReadEditedLine ==
    /\ pc = "start"
    /\ \E i \in 1..Len(CallerPatterns) : ReadEditedLineOf(CallerPatterns[i])
    /\ stamp' = [NoStamp EXCEPT !.kind = "edited"]
    /\ pc' = "line"
    /\ UNCHANGED <<m_known_ts_patterns, found, ret, timestamp,
                   timestamp_begin_pos, timestamp_end_pos, content, thrown,
                   sent>>
    /\ UNCHANGED <<inits, otherComponents>>

\* The caller reads a line of the catalog test or of the scenario table
ReadTestLine ==
    /\ pc = "start"
    /\ line' \in {TestLines[i] : i \in 1..Len(TestLines)} \cup {ScenarioLine}
    /\ stamp' = [NoStamp EXCEPT !.kind = "test"]
    /\ pc' = "line"
    /\ UNCHANGED <<m_known_ts_patterns, pattern, found, ret, timestamp,
                   timestamp_begin_pos, timestamp_end_pos, content, thrown,
                   sent>>
    /\ UNCHANGED <<inits, otherComponents>>

\* pattern = TimestampPattern::search_known_ts_patterns(line, timestamp,
\*     timestamp_begin_pos, timestamp_end_pos)
Searched(r) ==
    /\ found' = r.ret
    /\ pattern' = IF r.ret = nullptr THEN EmptyPattern
                  ELSE m_known_ts_patterns[r.ret + 1]
    /\ timestamp' = r.timestamp
    /\ timestamp_begin_pos' = r.timestamp_begin_pos
    /\ timestamp_end_pos' = r.timestamp_end_pos
    /\ thrown' = r.thrown

Search ==
    /\ pc = "line"
    /\ Searched(search_known_ts_patterns(m_known_ts_patterns, line, timestamp,
                    timestamp_begin_pos, timestamp_end_pos))
    /\ pc' = "searched"
    /\ UNCHANGED <<m_known_ts_patterns, line, stamp, ret, content, sent>>
    /\ UNCHANGED <<inits, otherComponents>>

\* pattern.parse_timestamp(line, timestamp, timestamp_begin_pos,
\*     timestamp_end_pos) by a caller that holds a pattern
Parsed(r) ==
    /\ ret' = r.ret
    /\ timestamp' = r.timestamp
    /\ timestamp_begin_pos' = r.timestamp_begin_pos
    /\ timestamp_end_pos' = r.timestamp_end_pos
    /\ thrown' = r.thrown

Parse ==
    /\ pc = "line"
    /\ pattern # EmptyPattern
    /\ Parsed(parse_timestamp(pattern, line, timestamp, timestamp_begin_pos,
                              timestamp_end_pos))
    /\ pc' = "parsed"
    /\ UNCHANGED <<m_known_ts_patterns, line, stamp, pattern, found, content,
                   sent>>
    /\ UNCHANGED <<inits, otherComponents>>

\* str.substr(pos, n): at most n characters of str from index pos (from 0)
Substr(str, pos, n) ==
    SubSeq(str, pos + 1, IF pos + n < Len(str) THEN pos + n ELSE Len(str))

\* The test's content.assign(line, 0, timestamp_begin_pos) and
\* content.append(line, timestamp_end_pos, timestamp_end_pos -
\* timestamp_begin_pos), after a search that found a pattern
BuildContent ==
    /\ pc = "searched"
    /\ found # nullptr
    /\ content' = Substr(line, 0, timestamp_begin_pos)
                    \o Substr(line, timestamp_end_pos,
                              timestamp_end_pos - timestamp_begin_pos)
    /\ pc' = "content"
    /\ UNCHANGED <<m_known_ts_patterns, line, stamp, pattern, found, ret,
                   timestamp, timestamp_begin_pos, timestamp_end_pos, thrown,
                   sent>>
    /\ UNCHANGED <<inits, otherComponents>>

\* A caller that holds a pattern, a timestamp and a message to put it in
SetMessageOf(p) ==
    /\ pattern' = p
    /\ content' \in Messages(p)

SetMessage ==
    /\ pc = "start"
    /\ \E i \in 1..Len(CallerPatterns) : SetMessageOf(CallerPatterns[i])
    /\ timestamp' \in Epochs
    /\ sent' = [kind |-> "sent", pattern |-> pattern',
                timestamp |-> timestamp']
    /\ pc' = "content"
    /\ UNCHANGED <<m_known_ts_patterns, line, stamp, found, ret,
                   timestamp_begin_pos, timestamp_end_pos, thrown>>
    /\ UNCHANGED <<inits, otherComponents>>

\* pattern->insert_formatted_timestamp(timestamp, content)
Inserted(r) ==
    /\ content' = r.msg
    /\ thrown' = r.thrown

Insert ==
    /\ pc = "content"
    /\ Inserted(insert_formatted_timestamp(pattern, timestamp, content))
    /\ pc' = "inserted"
    /\ UNCHANGED <<m_known_ts_patterns, line, stamp, pattern, found, ret,
                   timestamp, timestamp_begin_pos, timestamp_end_pos, sent>>
    /\ UNCHANGED <<inits, otherComponents>>

\* What compression keeps of a line: the catalog entry that the search
\* found, the timestamp, and the line without the timestamp's text
EncodedMessage(l, ts_pattern, ts, begin_pos, end_pos) ==
    IF ts_pattern = nullptr
    THEN [ts_pattern |-> nullptr, ts |-> EpochMs(0, 0), body |-> l]
    ELSE [ts_pattern |-> ts_pattern, ts |-> ts,
          body |-> SubSeq(l, 1, begin_pos) \o SubSeq(l, end_pos + 1, Len(l))]

\* What decompression writes for a message: its body, with the timestamp
\* inserted in the form of its pattern
DecompressedMessage(patterns, message) ==
    IF message.ts_pattern = nullptr
    THEN [msg |-> message.body, thrown |-> "none"]
    ELSE insert_formatted_timestamp(patterns[message.ts_pattern + 1],
                                    message.ts, message.body)

\* The message that was written is read as a line, before any search
Reread ==
    /\ pc = "inserted"
    /\ sent.kind = "sent"
    /\ found = nullptr
    /\ thrown = "none"
    /\ line' = content
    /\ pc' = "line"
    /\ UNCHANGED <<m_known_ts_patterns, stamp, pattern, found, ret, timestamp,
                   timestamp_begin_pos, timestamp_end_pos, content, thrown,
                   sent>>
    /\ UNCHANGED <<inits, otherComponents>>

Next ==
    \/ init
    \/ ReadLine
    \/ ReadEditedLine
    \/ ReadTestLine
    \/ Search
    \/ Parse
    \/ BuildContent
    \/ SetMessage
    \/ Insert
    \/ Reread

Spec == Init /\ [][Next]_vars

(***************************************************************************)
(* The comparator applied to the files of a segment                        *)
(***************************************************************************)
\* The comparator is called on the pairs of x, y and z
ComparedAs(x, y, z) ==
    /\ file_a' = x
    /\ file_b' = y
    /\ file_c' = z
    /\ compared' =
          [done |-> TRUE,
           aa |-> FileGroupIdAndEndTimestampLTSetComparator(x, x),
           ab |-> FileGroupIdAndEndTimestampLTSetComparator(x, y),
           ba |-> FileGroupIdAndEndTimestampLTSetComparator(y, x),
           bc |-> FileGroupIdAndEndTimestampLTSetComparator(y, z),
           ac |-> FileGroupIdAndEndTimestampLTSetComparator(x, z)]

\* Files of one archive: one id is one file
OneFilePerId(x, y, z) ==
    /\ x.id = y.id => x = y
    /\ x.id = z.id => x = z
    /\ y.id = z.id => y = z

Compare ==
    /\ ~compared.done
    /\ \E x, y, z \in ComparedFiles :
          OneFilePerId(x, y, z) /\ ComparedAs(x, y, z)
    /\ UNCHANGED <<timestampVars, dbVars, archiveVars, decompressVars>>

NextComparator == Compare

SpecComparator == Init /\ [][NextComparator]_vars

(***************************************************************************)
(* The calls on a SQLiteDB                                                 *)
(***************************************************************************)
\* db.open(path), with what sqlite3_open gave
Opened(r) ==
    /\ m_db_handle' = r.m_db_handle
    /\ db_last' = Outcome("open", FALSE, r.thrown, NoStatement)
    /\ db_opened' = IF r.thrown = "none" THEN "open"
                    ELSE IF r.close_ret /\ db_opened = "open" THEN "closed"
                    ELSE db_opened
    /\ db_was_busy' = FALSE

SQLiteDB_open ==
    /\ db_num_handles < MaxHandles
    /\ \E opened \in sqlite3_open(db_num_handles) :
          Opened(open(opened, db_statements))
    /\ db_num_handles' = db_num_handles + 1
    /\ UNCHANGED <<timestampVars, comparatorVars, archiveVars, decompressVars,
                   db_statements>>

\* db.close()
Closed(r) ==
    /\ m_db_handle' = r.m_db_handle
    /\ db_last' = Outcome("close", r.ret, "none", NoStatement)
    /\ db_opened' = IF r.ret /\ db_opened = "open" THEN "closed"
                    ELSE db_opened
    /\ db_was_busy' = (db_was_busy \/ ~r.ret)

SQLiteDB_close ==
    /\ Closed(close(m_db_handle, db_statements))
    /\ UNCHANGED <<timestampVars, comparatorVars, archiveVars, decompressVars,
                   db_num_handles,
                   db_statements>>

\* db.prepare_statement(statement); the caller keeps what it returns
Prepared(r) ==
    /\ db_last' = Outcome("prepare_statement", FALSE, r.thrown, r.prepared)
    /\ db_statements' = IF r.thrown = "none"
                        THEN db_statements \cup {r.prepared}
                        ELSE db_statements

SQLiteDB_prepare_statement ==
    /\ \E statement \in Statements :
          Prepared(prepare_statement(m_db_handle, statement))
    /\ UNCHANGED <<timestampVars, comparatorVars, archiveVars, decompressVars,
                   m_db_handle,
                   db_num_handles, db_opened, db_was_busy>>

\* A prepared statement is destroyed by its holder
DestroyStatement ==
    /\ \E s \in db_statements : db_statements' = db_statements \ {s}
    /\ UNCHANGED <<timestampVars, comparatorVars, archiveVars, decompressVars,
                   m_db_handle,
                   db_num_handles, db_last, db_opened, db_was_busy>>

NextDB ==
    \/ SQLiteDB_open
    \/ SQLiteDB_close
    \/ SQLiteDB_prepare_statement
    \/ DestroyStatement

SpecDB == Init /\ [][NextDB]_vars

(***************************************************************************)
(* The operations of an Archive                                            *)
(***************************************************************************)
\* The paths and the groups of the files
OrigPaths == {<<"a">>}

GroupIds == {0}

\* A file is created, mutable, with the next file id
Created(file) ==
    /\ m_files' = Append(m_files, file)
    /\ m_next_file_id' = m_next_file_id + 1
    /\ m_mutable_files' = m_mutable_files \cup {file.id}

\* archive.create_in_memory_file(path, group_id, orig_file_id, split_ix)
create_in_memory_file ==
    /\ is_open
    /\ m_next_file_id < MaxFiles
    /\ \E path \in OrigPaths, group_id \in GroupIds :
          Created(NewFile(m_next_file_id, path, group_id, TRUE))
    /\ UNCHANGED <<m_on_disk_files, m_released_but_dirty_files,
                   openSegmentVars, sealingVars, is_open>>
    /\ UNCHANGED <<timestampVars, comparatorVars, dbVars, decompressVars>>

\* archive.create_on_disk_file(path, group_id, orig_file_id, split_ix)
create_on_disk_file ==
    /\ is_open
    /\ m_next_file_id < MaxFiles
    /\ \E path \in OrigPaths, group_id \in GroupIds :
          Created(NewFile(m_next_file_id, path, group_id, FALSE))
    /\ m_on_disk_files' = m_on_disk_files \cup {m_next_file_id}
    /\ UNCHANGED <<m_released_but_dirty_files, openSegmentVars, sealingVars,
                   is_open>>
    /\ UNCHANGED <<timestampVars, comparatorVars, dbVars, decompressVars>>

\* archive.write_msg(file, timestamp, message, num_uncompressed_bytes) on a
\* file that was not released
write_msg ==
    /\ is_open
    /\ \E id \in m_mutable_files, ts \in MessageTimestamps,
          num_uncompressed_bytes \in {1, 2} :
          /\ m_files[id + 1].num_messages < MaxMessages
          /\ m_files' = [m_files EXCEPT ![id + 1] =
                            WithMessage(@, ts, num_uncompressed_bytes)]
    /\ UNCHANGED <<m_next_file_id, m_mutable_files, m_on_disk_files,
                   m_released_but_dirty_files, openSegmentVars, sealingVars,
                   is_open>>
    /\ UNCHANGED <<timestampVars, comparatorVars, dbVars, decompressVars>>

\* The file id is released: on disk, its metadata not yet persisted
Released(id) ==
    /\ m_mutable_files' = m_mutable_files \ {id}
    /\ m_on_disk_files' = m_on_disk_files \ {id}
    /\ m_released_but_dirty_files' = Append(m_released_but_dirty_files, id)
    /\ m_files' = [m_files EXCEPT ![id + 1].in_memory = FALSE]

\* archive.release_and_write_in_memory_file_to_disk(file)
release_and_write_in_memory_file_to_disk ==
    /\ is_open
    /\ \E id \in m_mutable_files :
          m_files[id + 1].in_memory /\ Released(id)
    /\ UNCHANGED <<m_next_file_id, openSegmentVars, sealingVars, is_open>>
    /\ UNCHANGED <<timestampVars, comparatorVars, dbVars, decompressVars>>

\* archive.release_on_disk_file(file)
release_on_disk_file ==
    /\ is_open
    /\ \E id \in m_mutable_files \cap m_on_disk_files : Released(id)
    /\ UNCHANGED <<m_next_file_id, openSegmentVars, sealingVars, is_open>>
    /\ UNCHANGED <<timestampVars, comparatorVars, dbVars, decompressVars>>

\* What sealing wrote is stored
Store(w) ==
    /\ segments' = w.segments
    /\ m_next_segment_id' = w.m_next_segment_id
    /\ m_metadata_db' = w.m_metadata_db

\* What was written before
WrittenBefore == Written(segments, m_next_segment_id, m_metadata_db)

\* The open segment for files with timestamps after a file was appended
\* to it: sealed, and a new one opened, when it reached the target size
AppendedWithTimestamps(a) ==
    /\ IF a.segment >= m_target_segment_uncompressed_size
       THEN /\ Store(close_segment_and_persist_file_metadata(
                         WrittenBefore, TRUE, a.files_in_segment))
            /\ m_segment_for_files_with_timestamps' = 0
            /\ m_files_with_timestamps_in_segment' = <<>>
       ELSE /\ m_segment_for_files_with_timestamps' = a.segment
            /\ m_files_with_timestamps_in_segment' = a.files_in_segment
            /\ UNCHANGED sealingVars
    /\ UNCHANGED <<m_segment_for_files_without_timestamps,
                   m_files_without_timestamps_in_segment>>

\* The same for the open segment for files without timestamps
AppendedWithoutTimestamps(a) ==
    /\ IF a.segment >= m_target_segment_uncompressed_size
       THEN /\ Store(close_segment_and_persist_file_metadata(
                         WrittenBefore, FALSE, a.files_in_segment))
            /\ m_segment_for_files_without_timestamps' = 0
            /\ m_files_without_timestamps_in_segment' = <<>>
       ELSE /\ m_segment_for_files_without_timestamps' = a.segment
            /\ m_files_without_timestamps_in_segment' = a.files_in_segment
            /\ UNCHANGED sealingVars
    /\ UNCHANGED <<m_segment_for_files_with_timestamps,
                   m_files_with_timestamps_in_segment>>

\* The released file is appended to the open segment it is routed to
Routed(file) ==
    IF HasTimestamps(file)
    THEN AppendedWithTimestamps(
             AppendedSegment(file, m_segment_for_files_with_timestamps,
                             m_files_with_timestamps_in_segment))
    ELSE AppendedWithoutTimestamps(
             AppendedSegment(file, m_segment_for_files_without_timestamps,
                             m_files_without_timestamps_in_segment))

\* archive.mark_file_ready_for_segment(file) on a released file
mark_file_ready_for_segment ==
    /\ is_open
    /\ \E i \in 1..Len(m_released_but_dirty_files) :
          /\ Routed(m_files[m_released_but_dirty_files[i] + 1])
          /\ m_released_but_dirty_files' =
                 Removed(m_released_but_dirty_files,
                         m_released_but_dirty_files[i])
    /\ UNCHANGED <<m_files, m_next_file_id, m_mutable_files, m_on_disk_files,
                   is_open>>
    /\ UNCHANGED <<timestampVars, comparatorVars, dbVars, decompressVars>>

\* archive.close(): both open segments are sealed, under the target size
\* or not
Archive_close ==
    /\ is_open
    /\ Store(close_segment_and_persist_file_metadata(
                 close_segment_and_persist_file_metadata(
                     WrittenBefore, TRUE,
                     m_files_with_timestamps_in_segment),
                 FALSE, m_files_without_timestamps_in_segment))
    /\ m_segment_for_files_with_timestamps' = 0
    /\ m_files_with_timestamps_in_segment' = <<>>
    /\ m_segment_for_files_without_timestamps' = 0
    /\ m_files_without_timestamps_in_segment' = <<>>
    /\ is_open' = FALSE
    /\ UNCHANGED fileVars
    /\ UNCHANGED <<timestampVars, comparatorVars, dbVars, decompressVars>>

NextArchive ==
    \/ create_in_memory_file
    \/ create_on_disk_file
    \/ write_msg
    \/ release_and_write_in_memory_file_to_disk
    \/ release_on_disk_file
    \/ mark_file_ready_for_segment
    \/ Archive_close

SpecArchive == Init /\ [][NextArchive]_vars

(***************************************************************************)
(* clp::decompress, call by call                                           *)
(***************************************************************************)
otherThanDecompress ==
    <<timestampVars, comparatorVars, dbVars, archiveVars>>

\* return false or return true at the line
Returned(line_number) ==
    /\ returned_at' = line_number
    /\ decompress_pc' = "done"

\* decompress(command_line_args, files_to_decompress) up to the branches:
\* create_directory, global_metadata_db.open, the archive iterator
Called(dir, files, existing, failure) ==
    /\ archives_dir' = dir
    /\ files_to_decompress' = files
    /\ existing_paths' = existing
    /\ IF failure = "create_directory"
       THEN /\ Returned(37)
            /\ UNCHANGED <<global_metadata_db, archive_ix>>
       ELSE IF failure = "TraceableException"
       THEN /\ Returned(159)
            /\ UNCHANGED <<global_metadata_db, archive_ix>>
       ELSE /\ global_metadata_db' = "open"
            /\ archive_ix' = ArchiveIterator(dir, files)
            /\ returned_at' = 0
            /\ decompress_pc' =
                   IF ArchiveIterator(dir, files) = <<>> THEN "rename"
                   ELSE "archives"

decompress ==
    /\ decompress_pc = "idle"
    /\ \E dir \in ArchivesDirs, files \in SUBSET RequestedPaths,
          existing \in SUBSET ExistingAtStart,
          failure \in {"none", "create_directory", "TraceableException"} :
          Called(dir, files, existing, failure)
    /\ UNCHANGED <<file_metadata_ix, archive_reader, open_archives,
                   temp_path_to_final_path, decompressed_files, passed,
                   renamed, logged, otherThanDecompress>>

\* archive_reader.open(archive_path), which may throw
archive_reader_open ==
    /\ decompress_pc = "archives"
    /\ \/ /\ archive_reader' = "open"
          /\ open_archives' = open_archives \cup {Head(archive_ix)}
          /\ decompress_pc' = "refresh"
          /\ UNCHANGED returned_at
       \/ /\ Returned(159)
          /\ UNCHANGED <<archive_reader, open_archives>>
    /\ UNCHANGED <<inputVars, outputVars, global_metadata_db, archive_ix,
                   file_metadata_ix, otherThanDecompress>>

\* archive_reader.refresh_dictionaries() (and decompress_empty_directories
\* when every file is decompressed), which may throw, and the file iterator
refresh_dictionaries ==
    /\ decompress_pc = "refresh"
    /\ \/ /\ archive_reader' = "refreshed"
          /\ file_metadata_ix' =
                 FileIterator(archives_dir[Head(archive_ix)],
                              files_to_decompress)
          /\ decompress_pc' = "files"
          /\ UNCHANGED returned_at
       \/ /\ Returned(159)
          /\ UNCHANGED <<archive_reader, file_metadata_ix>>
    /\ UNCHANGED <<inputVars, outputVars, global_metadata_db, archive_ix,
                   open_archives, otherThanDecompress>>

\* A faulty loop body: a failed decompress_file is passed over
Decompressed_FailureIgnored(archive_id, split, orig_path, result) ==
    /\ passed' = passed \cup {<<archive_id, split>>}
    /\ IF result = "thrown"
       THEN /\ Returned(159)
            /\ UNCHANGED <<file_metadata_ix, temp_path_to_final_path,
                           decompressed_files>>
       ELSE /\ temp_path_to_final_path' =
                   IF result = "true"
                   THEN decompress_file(temp_path_to_final_path, archive_id,
                                        split, orig_path)
                   ELSE temp_path_to_final_path
            /\ decompressed_files' = decompressed_files \cup {orig_path}
            /\ file_metadata_ix' = Tail(file_metadata_ix)
            /\ UNCHANGED <<returned_at, decompress_pc>>

\* The body of the loop over the files: decompress_file gave result
Decompressed(archive_id, split, orig_path, result) ==
    /\ passed' = passed \cup {<<archive_id, split>>}
    /\ IF result = "true"
       THEN /\ temp_path_to_final_path' =
                   decompress_file(temp_path_to_final_path, archive_id,
                                   split, orig_path)
            /\ decompressed_files' = decompressed_files \cup {orig_path}
            /\ file_metadata_ix' = Tail(file_metadata_ix)
            /\ UNCHANGED <<returned_at, decompress_pc>>
       ELSE /\ Returned(IF result = "false"
                        THEN ReturnOfBranch(files_to_decompress) ELSE 159)
            /\ UNCHANGED <<file_metadata_ix, temp_path_to_final_path,
                           decompressed_files>>

\* One turn of the loop over the files of the open archive
NextFile(archive_id, split, orig_path) ==
    IF Skipped(files_to_decompress, orig_path)
    THEN /\ file_metadata_ix' = Tail(file_metadata_ix)
         /\ UNCHANGED <<temp_path_to_final_path, decompressed_files, passed,
                        returned_at, decompress_pc>>
    ELSE \E result \in {"true", "false", "thrown"} :
            Decompressed(archive_id, split, orig_path, result)

decompress_file_step ==
    /\ decompress_pc = "files"
    /\ file_metadata_ix # <<>>
    /\ NextFile(Head(archive_ix), Head(file_metadata_ix),
                archives_dir[Head(archive_ix)][Head(file_metadata_ix)])
    /\ UNCHANGED <<inputVars, existing_paths, renamed, logged,
                   global_metadata_db, archive_ix, archive_reader,
                   open_archives, otherThanDecompress>>

\* A faulty end of the loop over the files: the archive is left open
archive_reader_close_LeftOpen ==
    /\ decompress_pc = "files"
    /\ file_metadata_ix = <<>>
    /\ archive_reader' = "closed"
    /\ open_archives' = open_archives
    /\ archive_ix' = Tail(archive_ix)
    /\ decompress_pc' = IF Tail(archive_ix) = <<>> THEN "rename"
                        ELSE "archives"
    /\ UNCHANGED <<inputVars, outputVars, global_metadata_db,
                   file_metadata_ix, returned_at, otherThanDecompress>>

\* archive_reader.close() after the last file, and archive_ix.next()
archive_reader_close ==
    /\ decompress_pc = "files"
    /\ file_metadata_ix = <<>>
    /\ archive_reader' = "closed"
    /\ open_archives' = open_archives \ {Head(archive_ix)}
    /\ archive_ix' = Tail(archive_ix)
    /\ decompress_pc' = IF Tail(archive_ix) = <<>> THEN "rename"
                        ELSE "archives"
    /\ UNCHANGED <<inputVars, outputVars, global_metadata_db,
                   file_metadata_ix, returned_at, otherThanDecompress>>

\* The temporary files that the loop over temp_path_to_final_path has yet
\* to reach
NotRenamed ==
    {e \in temp_path_to_final_path :
        \A done \in renamed : done.first # e.first}

\* One turn of the loop over temp_path_to_final_path: rename(first,
\* final_path) gave return_value
Renamed(e, final_path, return_value) ==
    IF return_value = 0
    THEN /\ renamed' = renamed \cup
                 {[first |-> e.first, second |-> e.second,
                   final_path |-> final_path,
                   existed |-> final_path \in existing_paths]}
         /\ existing_paths' = existing_paths \cup {final_path}
         /\ UNCHANGED <<returned_at, decompress_pc>>
    ELSE /\ Returned(150)
         /\ UNCHANGED <<renamed, existing_paths>>

rename ==
    /\ decompress_pc = "rename"
    /\ \E e \in NotRenamed, return_value \in {0, -1} :
          Renamed(e, RenameTarget(e.second, OutputPath(e.second, 0), 1,
                                  existing_paths),
                  return_value)
    /\ UNCHANGED <<inputVars, readerVars, temp_path_to_final_path,
                   decompressed_files, passed, logged, otherThanDecompress>>

\* A faulty end: a requested file that was not found makes the result false
decompress_return_FalseWhenNotFound ==
    /\ decompress_pc = "rename"
    /\ NotRenamed = {}
    /\ global_metadata_db' = "closed"
    /\ logged' = NotFound(files_to_decompress, decompressed_files)
    /\ Returned(IF NotFound(files_to_decompress, decompressed_files) = {}
                THEN 175 ELSE 162)
    /\ UNCHANGED <<inputVars, archive_ix, file_metadata_ix, archive_reader,
                   open_archives, existing_paths, temp_path_to_final_path,
                   decompressed_files, passed, renamed, otherThanDecompress>>

\* global_metadata_db.close(), the log of the files not found, return true
decompress_return ==
    /\ decompress_pc = "rename"
    /\ NotRenamed = {}
    /\ global_metadata_db' = "closed"
    /\ logged' = NotFound(files_to_decompress, decompressed_files)
    /\ Returned(175)
    /\ UNCHANGED <<inputVars, archive_ix, file_metadata_ix, archive_reader,
                   open_archives, existing_paths, temp_path_to_final_path,
                   decompressed_files, passed, renamed, otherThanDecompress>>

NextDecompress ==
    \/ decompress
    \/ archive_reader_open
    \/ refresh_dictionaries
    \/ decompress_file_step
    \/ archive_reader_close
    \/ rename
    \/ decompress_return

SpecDecompress == Init /\ [][NextDecompress]_vars


(***************************************************************************)
(* Properties                                                              *)
(***************************************************************************)
\* 2015-02-01, the day of every test line: 1422748800000 ms = 16467 days
TestDay == DaysFromCivil(2015, 2, 1)

\* What the catalog test and the scenario table expect of each line of
\* TestLines: the pattern selected, the milliseconds after the start of
\* TestDay (1422752523004 = 16467 * 86400000 + 3723004), and the positions
TestExpected ==
    << [pattern |-> Pattern(0, <<"%","Y","-","%","m","-","%","d","T","%","H",":","%","M",":","%","S",".","%","3">>), ms |-> 3723004,
        begin_pos |-> 0, end_pos |-> 23],
       [pattern |-> Pattern(0, <<"%","Y","-","%","m","-","%","d","T","%","H",":","%","M",":","%","S",",","%","3">>), ms |-> 3723004,
        begin_pos |-> 0, end_pos |-> 23],
       [pattern |-> Pattern(0, <<"[","%","Y","-","%","m","-","%","d","T","%","H",":","%","M",":","%","S">>), ms |-> 3723000,
        begin_pos |-> 0, end_pos |-> 20],
       [pattern |-> Pattern(0, <<"[","%","Y","%","m","%","d","-","%","H",":","%","M",":","%","S","]">>), ms |-> 3723000,
        begin_pos |-> 0, end_pos |-> 19],
       [pattern |-> Pattern(0, <<"%","Y","-","%","m","-","%","d"," ","%","H",":","%","M",":","%","S",",","%","3">>), ms |-> 3723004,
        begin_pos |-> 0, end_pos |-> 23],
       [pattern |-> Pattern(0, <<"%","Y","-","%","m","-","%","d"," ","%","H",":","%","M",":","%","S",".","%","3">>), ms |-> 3723004,
        begin_pos |-> 0, end_pos |-> 23],
       [pattern |-> Pattern(0, <<"[","%","Y","-","%","m","-","%","d"," ","%","H",":","%","M",":","%","S",",","%","3","]">>), ms |-> 3723004,
        begin_pos |-> 0, end_pos |-> 25],
       [pattern |-> Pattern(0, <<"%","Y","-","%","m","-","%","d"," ","%","H",":","%","M",":","%","S">>), ms |-> 3723000,
        begin_pos |-> 0, end_pos |-> 19],
       [pattern |-> Pattern(0, <<"%","Y","/","%","m","/","%","d"," ","%","H",":","%","M",":","%","S">>), ms |-> 3723000,
        begin_pos |-> 0, end_pos |-> 19],
       [pattern |-> Pattern(0, <<"%","y","/","%","m","/","%","d"," ","%","H",":","%","M",":","%","S">>), ms |-> 3723000,
        begin_pos |-> 0, end_pos |-> 17],
       [pattern |-> Pattern(0, <<"%","y","%","m","%","d"," ","%","k",":","%","M",":","%","S">>), ms |-> 3723000,
        begin_pos |-> 0, end_pos |-> 15],
       [pattern |-> Pattern(0, <<"%","d"," ","%","b"," ","%","Y"," ","%","H",":","%","M",":","%","S",",","%","3">>), ms |-> 3723004,
        begin_pos |-> 0, end_pos |-> 24],
       [pattern |-> Pattern(0, <<"%","b"," ","%","d",","," ","%","Y"," ","%","l",":","%","M",":","%","S"," ","%","p">>), ms |-> 3723000,
        begin_pos |-> 0, end_pos |-> 24],
       [pattern |-> Pattern(0, <<"%","B"," ","%","d",","," ","%","Y"," ","%","H",":","%","M">>), ms |-> 3720000,
        begin_pos |-> 0, end_pos |-> 23],
       [pattern |-> Pattern(1, <<"[","%","d","/","%","b","/","%","Y",":","%","H",":","%","M",":","%","S">>), ms |-> 3723000,
        begin_pos |-> 2, end_pos |-> 23],
       [pattern |-> Pattern(3, <<"[","%","d","/","%","b","/","%","Y",":","%","H",":","%","M",":","%","S">>), ms |-> 3723000,
        begin_pos |-> 14, end_pos |-> 35],
       [pattern |-> Pattern(2, <<"%","Y","-","%","m","-","%","d"," ","%","H",":","%","M",":","%","S",",","%","3">>), ms |-> 3723004,
        begin_pos |-> 12, end_pos |-> 35],
       [pattern |-> Pattern(6, <<"%","Y","-","%","m","-","%","d"," ","%","H",":","%","M",":","%","S">>), ms |-> 3723000,
        begin_pos |-> 57, end_pos |-> 76],
       [pattern |-> Pattern(1, <<"%","Y","-","%","m","-","%","d"," ","%","H",":","%","M",":","%","S">>), ms |-> 3723000,
        begin_pos |-> 20, end_pos |-> 39],
       [pattern |-> Pattern(4, <<"%","a"," ","%","b"," ","%","e"," ","%","H",":","%","M",":","%","S"," ","%","Y">>), ms |-> 3723000,
        begin_pos |-> 25, end_pos |-> 49],
       [pattern |-> Pattern(0, <<"<","<","<","%","Y","-","%","m","-","%","d"," ","%","H",":","%","M",":","%","S",":","%","3">>), ms |-> 3723004,
        begin_pos |-> 0, end_pos |-> 26] >>

ScenarioExpected ==
    [pattern |-> Pattern(4, <<"%","a"," ","%","b"," ","%","e"," ","%","H",":","%","M",":","%","S"," ","%","Y">>), ms |-> 3723000,
     begin_pos |-> 25, end_pos |-> 49]

\* The caller's variables after a search are as a test expects them
SearchGave(x) ==
    /\ found # nullptr
    /\ KnownPatterns[found + 1] = x.pattern
    /\ \A j \in 1..found : KnownPatterns[j] # x.pattern
    /\ pattern = x.pattern
    /\ timestamp = [d |-> TestDay, ms |-> x.ms]
    /\ timestamp_begin_pos = x.begin_pos
    /\ timestamp_end_pos = x.end_pos

\* The catalog is the one init() builds
Initialised == m_known_ts_patterns = KnownPatterns

\* What parse_timestamp of p leaves of a line in fresh variables
ParseOf(p, l) == parse_timestamp(p, l, EpochMs(0, 0), 0, 0)

\* The catalog indexes whose pattern accepts the line
Accepting(l) ==
    {i \in 0..(Len(m_known_ts_patterns) - 1) :
        ParseOf(m_known_ts_patterns[i + 1], l).ret}

\* A search found a pattern, the content was the line without its timestamp
\* and the timestamp has been inserted again
RoundTripDone ==
    /\ pc = "inserted"
    /\ found # nullptr
    /\ Len(line) - timestamp_end_pos <= timestamp_end_pos - timestamp_begin_pos

\* C1: for every line on which search_known_ts_patterns succeeds, inserting
\* the timestamp the search returned into the line without its timestamp
\* text gives the line back exactly.
C1_ParseThenFormatIsIdentity ==
    RoundTripDone => (thrown = "none" /\ content = line)

\* C2: search_known_ts_patterns returns the accepting catalog entry of
\* lowest index with exactly that entry's timestamp, begin_pos and end_pos,
\* and null with begin_pos = end_pos = npos when no entry accepts the line.
C2_SearchReturnsFirstMatch ==
    pc = "searched" =>
        IF Accepting(line) = {}
        THEN /\ found = nullptr
             /\ timestamp_begin_pos = npos
             /\ timestamp_end_pos = npos
        ELSE /\ found \in Accepting(line)
             /\ \A i \in Accepting(line) : found <= i
             /\ ParseOf(m_known_ts_patterns[found + 1], line) =
                    [ret |-> TRUE, thrown |-> "none", timestamp |-> timestamp,
                     timestamp_begin_pos |-> timestamp_begin_pos,
                     timestamp_end_pos |-> timestamp_end_pos]

\* C2 witness: a search returned an entry that is not the first of the
\* catalog, on a line that a later entry accepts too
C2_Witness ==
    /\ pc = "searched"
    /\ found > 0
    /\ \E i \in Accepting(line) : i > found

\* The year of a timestamp
YearOf(t) == CivilFromDays(t.d).year

\* t without its milliseconds
TruncatedToSecond(t) == [t EXCEPT !.ms = t.ms - (t.ms % 1000)]

\* A catalog pattern's timestamp was formatted into a message with the
\* spaces the pattern asks for, and the result has been searched
FormattedThenSearched ==
    /\ pc = "searched"
    /\ Initialised
    /\ sent.kind = "sent"
    /\ \E i \in 1..Len(KnownPatterns) : KnownPatterns[i] = sent.pattern
    /\ YearOf(sent.timestamp) \in 1970..2099

\* C3: for every catalog pattern p and every t of a year in 1970..2099,
\* formatting t with p and searching the result returns p and t (less the
\* milliseconds, for a pattern without %3).
C3_FormatThenSearchReturnsSame ==
    FormattedThenSearched =>
        /\ found # nullptr
        /\ pattern = sent.pattern
        /\ timestamp = IF Has(sent.pattern.m_format, "3") THEN sent.timestamp
                       ELSE TruncatedToSecond(sent.timestamp)

\* C4: on each line of the catalog test and of the scenario table the
\* search selects the entry (N, F) the line was written for and no earlier
\* entry, with begin_pos the length of the prefix, end_pos the end of the
\* timestamp text and the expected epoch value.
C4_TestLinesSelectTheirEntry ==
    (pc = "searched" /\ Initialised /\ stamp.kind = "test") =>
        /\ \A i \in 1..Len(TestLines) :
              line = TestLines[i] => SearchGave(TestExpected[i])
        /\ line = ScenarioLine => SearchGave(ScenarioExpected)

\* C4 witness: the line of the access log, found by the entry with three
\* spaces and not by the one with one space
C4_Witness ==
    /\ pc = "searched"
    /\ line = TestLines[16]
    /\ pattern = Pattern(3, <<"[","%","d","/","%","b","/","%","Y",":","%","H",":","%","M",":","%","S">>)
    /\ found = 16
    /\ timestamp_begin_pos = 14
    /\ timestamp_end_pos = 35
    /\ timestamp = [d |-> TestDay, ms |-> 3723000]

\* The number of spaces in a text
SpacesIn(text) == Cardinality({i \in 1..Len(text) : text[i] = " "})

\* The index (from 0) right after the n-th space of l, which has n spaces
\* or more; 0 when n = 0
AfterNthSpace(l, n) ==
    IF n = 0 THEN 0
    ELSE CHOOSE k \in 1..Len(l) :
            l[k] = " " /\ SpacesIn(SubSeq(l, 1, k)) = n

\* The width and the padding of the text of a numeric specifier
TextWidth(c) == IF c = "Y" THEN 4 ELSE IF c = "3" THEN 3 ELSE 2

TextPadding(c) == IF c \in {"e", "k", "l"} THEN " " ELSE "0"

\* text is padding characters followed by digits, width characters in all
PaddedNumber(text, width, padding_character) ==
    /\ Len(text) = width
    /\ \E k \in 0..width :
          /\ \A i \in 1..k : text[i] = padding_character
          /\ \A i \in (k + 1)..width : IsDigit(text[i])

\* text is one of the names of a table
IsName(text, names) == \E k \in 1..Len(names) : text = names[k]

\* text is a text of the specifier c
IsFieldText(c, text) ==
    CASE c = "%" -> text = <<"%">>
      [] c \in {"y", "Y", "m", "d", "e", "H", "k", "I", "l", "M", "S", "3"} ->
            PaddedNumber(text, TextWidth(c), TextPadding(c))
      [] c = "B" -> IsName(text, cMonthNames)
      [] c = "b" -> IsName(text, cAbbrevMonthNames)
      [] c = "a" -> IsName(text, cAbbrevDaysOfWeek)
      [] c = "p" -> text \in {<<"A", "M">>, <<"P", "M">>}
      [] OTHER -> FALSE

\* The format from index i on matches the text from index j on (both from
\* 1), each literal character by an equal character and each specifier by
\* one of its texts, with nothing of either left over
RECURSIVE Matches(_, _, _, _)
Matches(fmt, i, text, j) ==
    IF i > Len(fmt) THEN j = Len(text) + 1
    ELSE IF fmt[i] = "%" /\ i < Len(fmt)
    THEN \E w \in 1..(Len(text) - j + 1) :
            /\ IsFieldText(fmt[i + 1], SubSeq(text, j, j + w - 1))
            /\ Matches(fmt, i + 2, text, j + w)
    ELSE /\ j <= Len(text)
         /\ text[j] = fmt[i]
         /\ Matches(fmt, i + 1, text, j + 1)

\* The caller's pattern has parsed the line
ParseReturned == pc = "parsed"

\* The line up to the end of the timestamp, as written for the pattern
FullText(p) ==
    Words(p.m_num_spaces_before_ts) \o WriteStamp(p.m_format, 1, BaseStamp)

\* The line is a written line cut short before the end of its timestamp
EndsBeforeFormat ==
    /\ stamp.kind = "edited"
    /\ Len(line) < Len(FullText(pattern))
    /\ line = SubSeq(FullText(pattern), 1, Len(line))

\* C5: parse_timestamp of (N, F) returns true only if the line has N spaces
\* or more and the whole of F matches line[begin_pos..end_pos) character by
\* character; begin_pos is then the index right after the N-th space, the
\* text before it has exactly N spaces, and begin_pos <= end_pos <=
\* length(line).  A line that ends before F is used up is rejected.
C5_ParseMatchesWholeFormat ==
    ParseReturned =>
        /\ ret =>
              /\ SpacesIn(line) >= pattern.m_num_spaces_before_ts
              /\ timestamp_begin_pos =
                     AfterNthSpace(line, pattern.m_num_spaces_before_ts)
              /\ SpacesIn(SubSeq(line, 1, timestamp_begin_pos)) =
                     pattern.m_num_spaces_before_ts
              /\ timestamp_begin_pos <= timestamp_end_pos
              /\ timestamp_end_pos <= Len(line)
              /\ Matches(pattern.m_format, 1,
                         SubSeq(line, timestamp_begin_pos + 1,
                                timestamp_end_pos), 1)
        /\ EndsBeforeFormat => ~ret

\* C5 witness: a line damaged after its timestamp is accepted by a pattern
\* with spaces before the timestamp, and the timestamp ends before the line
C5_Witness ==
    /\ ParseReturned
    /\ ret
    /\ stamp.kind = "edited"
    /\ pattern.m_num_spaces_before_ts = 3
    /\ timestamp_begin_pos = 6
    /\ timestamp_end_pos < Len(line)
    /\ line # WrittenLine(pattern, BaseStamp)

\* C5 witness of the rejection: a line cut inside its timestamp
C5_CutLineRejected ==
    /\ ParseReturned
    /\ EndsBeforeFormat
    /\ Len(line) > 10
    /\ ~ret

\* The specifiers of a format are all known to parse_timestamp
KnownSpecifiers(fmt) ==
    \A i \in 1..(Len(fmt) - 1) :
        fmt[i] = "%" =>
            fmt[i + 1] \in {"%", "y", "Y", "B", "b", "m", "d", "e", "a", "p",
                            "H", "k", "I", "l", "M", "S", "3"}

\* The two digits that %y writes of the year of a stamp
TwoDigits(s) == s.year % 100

\* The year, month and day that the line written from stamp s in the format
\* fmt says: a field the format lacks has the value of 1970-01-01
WrittenYear(fmt, s) ==
    IF Has(fmt, "Y") THEN s.year
    ELSE IF Has(fmt, "y")
    THEN (IF TwoDigits(s) >= 69 THEN 1900 ELSE 2000) + TwoDigits(s)
    ELSE 1970

WrittenMonth(fmt, s) ==
    IF Has(fmt, "m") \/ Has(fmt, "b") \/ Has(fmt, "B") THEN s.month ELSE 1

WrittenDate(fmt, s) ==
    IF Has(fmt, "d") \/ Has(fmt, "e") THEN s.date ELSE 1

\* The Gregorian calendar
LeapYear(y) == (y % 4 = 0 /\ y % 100 # 0) \/ y % 400 = 0

DaysInMonth(y, m) ==
    IF m = 2 THEN (IF LeapYear(y) THEN 29 ELSE 28)
    ELSE IF m \in {4, 6, 9, 11} THEN 30 ELSE 31

ValidDate(y, m, d) == m \in 1..12 /\ d \in 1..DaysInMonth(y, m)

\* The pattern has parsed a line written from a stamp that differs from
\* the base stamp in its date only
DateLineParsed ==
    /\ ParseReturned
    /\ stamp = [BaseStamp EXCEPT !.year = stamp.year, !.month = stamp.month,
                                 !.date = stamp.date]
    /\ KnownSpecifiers(pattern.m_format)

\* C6: parse_timestamp rejects every line whose year, month and day are
\* not a date of the Gregorian calendar, though each is in its own range,
\* and accepts the line when they are: February 30 and February 29 of a
\* non-leap year fail, February 29 of 2016 succeeds.
C6_InvalidDatesRejected ==
    DateLineParsed =>
        (ret <=> ValidDate(WrittenYear(pattern.m_format, stamp),
                           WrittenMonth(pattern.m_format, stamp),
                           WrittenDate(pattern.m_format, stamp)))

\* C6 witness: 1900-02-29, each field in range and 1900 no leap year, is
\* rejected by a pattern with a four-digit year
C6_Witness ==
    /\ DateLineParsed
    /\ Has(pattern.m_format, "Y")
    /\ Has(pattern.m_format, "m")
    /\ Has(pattern.m_format, "d")
    /\ stamp.year = 1900 /\ stamp.month = 2 /\ stamp.date = 29
    /\ ~ret

\* C6 witness of the acceptance: 2016-02-29
C6_LeapDayAccepted ==
    /\ DateLineParsed
    /\ Has(pattern.m_format, "Y")
    /\ stamp.year = 2016 /\ stamp.month = 2 /\ stamp.date = 29
    /\ ret
    /\ timestamp.d = DaysFromCivil(2016, 3, 1) - 1

\* The hour of the day of a timestamp
HourOf(t) == t.ms \div 3600000

\* The pattern has a 12-hour specifier and %p, and has parsed a line written
\* from a stamp that differs from the base stamp in these two fields only
Hour12LineParsed ==
    /\ ParseReturned
    /\ Has(pattern.m_format, "I") \/ Has(pattern.m_format, "l")
    /\ Has(pattern.m_format, "p")
    /\ stamp = [BaseStamp EXCEPT !.hour12 = stamp.hour12,
                                 !.part_of_day = stamp.part_of_day]

\* The hour on the 24-hour clock of hour h of the 12-hour clock
HourOn24(h, part_of_day) ==
    IF part_of_day = <<"A", "M">> THEN (IF h = 12 THEN 0 ELSE h)
    ELSE (IF h = 12 THEN 12 ELSE h + 12)

\* C7: with %I or %l and %p, 12 AM is hour 0, 12 PM hour 12, h in 1..11
\* is h with AM and h + 12 with PM, the hour is in 0..23, and a 12-hour
\* field outside 1..12 is rejected.
C7_Hour12Conversion ==
    Hour12LineParsed =>
        /\ stamp.hour12 \notin 1..12 => ~ret
        /\ (stamp.hour12 \in 1..12
               /\ stamp.part_of_day \in {<<"A", "M">>, <<"P", "M">>}) =>
              /\ ret
              /\ HourOf(timestamp) = HourOn24(stamp.hour12, stamp.part_of_day)
              /\ HourOf(timestamp) \in 0..23

\* C7 witness: 12 AM parsed as hour 0
C7_Witness ==
    /\ Hour12LineParsed
    /\ stamp.hour12 = 12
    /\ stamp.part_of_day = <<"A", "M">>
    /\ ret
    /\ HourOf(timestamp) = 0

\* C7 witnesses of the other cases: 1 PM parsed as hour 13, and hour 13 of
\* the 12-hour clock rejected
C7_OnePmIsThirteen ==
    /\ Hour12LineParsed
    /\ stamp.hour12 = 1
    /\ stamp.part_of_day = <<"P", "M">>
    /\ ret
    /\ HourOf(timestamp) = 13

C7_ThirteenRejected ==
    /\ Hour12LineParsed
    /\ stamp.hour12 = 13
    /\ ~ret

\* The pattern has %y and has parsed a line written from a stamp that
\* differs from the base stamp in its year only
TwoDigitYearLineParsed ==
    /\ ParseReturned
    /\ Has(pattern.m_format, "y")
    /\ stamp = [BaseStamp EXCEPT !.year = stamp.year]

\* C8: %y maps v in 69..99 to 1900 + v and v in 00..68 to 2000 + v.
C8_TwoDigitYearPivot ==
    TwoDigitYearLineParsed =>
        /\ ret
        /\ YearOf(timestamp) =
               IF TwoDigits(stamp) >= 69 THEN 1900 + TwoDigits(stamp)
               ELSE 2000 + TwoDigits(stamp)
        /\ TwoDigits(stamp) = 68 => YearOf(timestamp) = 2068
        /\ TwoDigits(stamp) = 69 => YearOf(timestamp) = 1969
        /\ TwoDigits(stamp) = 99 => YearOf(timestamp) = 1999
        /\ TwoDigits(stamp) = 0 => YearOf(timestamp) = 2000

\* C8 witness: 69 parsed as 1969, a day before the epoch
C8_Witness ==
    /\ TwoDigitYearLineParsed
    /\ TwoDigits(stamp) = 69
    /\ ret
    /\ YearOf(timestamp) = 1969
    /\ timestamp.d = DaysFromCivil(1969, 2, 1)
    /\ timestamp.d < 0

\* C8 witness of the other side of the pivot: 68 parsed as 2068
C8_SixtyEight ==
    /\ TwoDigitYearLineParsed
    /\ TwoDigits(stamp) = 68
    /\ ret
    /\ YearOf(timestamp) = 2068

\* The pattern has %M and %S and has parsed a line written from a stamp
\* that differs from the base stamp in its minute and second only
SecondLineParsed ==
    /\ ParseReturned
    /\ Has(pattern.m_format, "M")
    /\ Has(pattern.m_format, "S")
    /\ KnownSpecifiers(pattern.m_format)
    /\ stamp = [BaseStamp EXCEPT !.minute = stamp.minute,
                                 !.second = stamp.second]

\* The timestamp of the line written from stamp s in the pattern's format
TimestampWritten(s) == ParseOf(pattern, WrittenLine(pattern, s)).timestamp

\* C9: %S accepts every value 00..60 and rejects every value above 60; a
\* second of 60 adds 60 * 1000 ms, so hh:mm:60 has the timestamp of
\* hh:(mm+1):00.
C9_SecondSixtyAccepted ==
    SecondLineParsed =>
        /\ ret <=> (stamp.second <= 60 /\ stamp.minute <= 59)
        /\ ret =>
              /\ timestamp.d = TimestampWritten(BaseStamp).d
              /\ timestamp.ms =
                     TimestampWritten([stamp EXCEPT !.second = 0]).ms
                         + stamp.second * 1000
        /\ (ret /\ stamp.second = 60 /\ stamp.minute < 59) =>
              timestamp =
                  TimestampWritten([stamp EXCEPT !.second = 0,
                                                 !.minute = stamp.minute + 1])

\* C9 witness: 01:03:60 parsed as 01:04:00
C9_Witness ==
    /\ SecondLineParsed
    /\ stamp.minute = 3
    /\ stamp.second = 60
    /\ ret
    /\ timestamp.ms % 1000 = IF Has(pattern.m_format, "3") THEN 4 ELSE 0
    /\ timestamp.ms \div 1000 = 3600 + 4 * 60

\* C9 witness of the rejection: a second of 61
C9_SixtyOneRejected ==
    /\ SecondLineParsed
    /\ stamp.minute = 3
    /\ stamp.second = 61
    /\ ~ret

\* The pattern has %a and has parsed a line written from a stamp
WeekdayLineParsed ==
    /\ ParseReturned
    /\ stamp.kind = "stamp"
    /\ Has(pattern.m_format, "a")

\* What the pattern leaves of the line with another weekday written
WithWeekday(w) ==
    ParseOf(pattern, WrittenLine(pattern, [stamp EXCEPT !.weekday = w]))

\* What the caller's variables hold after the parse
Outs ==
    [ret |-> ret, thrown |-> thrown, timestamp |-> timestamp,
     timestamp_begin_pos |-> timestamp_begin_pos,
     timestamp_end_pos |-> timestamp_end_pos]

\* C10: with %a the line is accepted iff the weekday text is one of the
\* seven abbreviations, and the timestamp, begin_pos and end_pos are the
\* same for all seven: the weekday is not compared with the date.
C10_WeekdayOnlySyntax ==
    WeekdayLineParsed =>
        /\ ~IsName(stamp.weekday, cAbbrevDaysOfWeek) => ~ret
        /\ IsName(stamp.weekday, cAbbrevDaysOfWeek) =>
              /\ \A k \in 1..cNumDaysInWeek :
                    WithWeekday(cAbbrevDaysOfWeek[k]) = Outs
              /\ stamp = [BaseStamp EXCEPT !.weekday = stamp.weekday] => ret

\* C10 witness: 2015-02-01, a Sunday, written with "Sat" and accepted
C10_Witness ==
    /\ WeekdayLineParsed
    /\ stamp.weekday = cAbbrevDaysOfWeek[7]
    /\ stamp.year = 2015 /\ stamp.month = 2 /\ stamp.date = 1
    /\ WeekdayIndex(timestamp.d) = 0
    /\ ret
    /\ timestamp = [d |-> TestDay, ms |-> 3723000]

\* C10 witness of the rejection: a weekday in lower case
C10_LowerCaseRejected ==
    /\ WeekdayLineParsed
    /\ stamp.weekday = <<"s","u","n">>
    /\ ~ret

\* insert_formatted_timestamp is called on the caller's message
InsertStep == pc = "content" /\ pc' = "inserted"

\* new is old with one text of the format fmt put in at index k (from 0):
\* the k characters before and the characters after are those of old
InsertedAt(old, new, k, fmt) ==
    /\ Len(new) >= Len(old)
    /\ SubSeq(new, 1, k) = SubSeq(old, 1, k)
    /\ SubSeq(new, Len(new) - (Len(old) - k) + 1, Len(new)) =
           SubSeq(old, k + 1, Len(old))
    /\ Matches(fmt, 1, SubSeq(new, k + 1, Len(new) - (Len(old) - k)), 1)

\* C11: insert_formatted_timestamp on a message with N spaces or more gives
\* msg[0..k) ++ rendered timestamp ++ msg[k..), k the index right after the
\* N-th space: the text before and after is kept and nothing else changes.
C11_InsertKeepsText ==
    [][(/\ InsertStep
        /\ SpacesIn(content) >= pattern.m_num_spaces_before_ts
        /\ KnownSpecifiers(pattern.m_format)) =>
           /\ thrown' = "none"
           /\ InsertedAt(content, content',
                         AfterNthSpace(content,
                                       pattern.m_num_spaces_before_ts),
                         pattern.m_format)]_vars

\* C12: insert_formatted_timestamp fails with Failure when the message has
\* fewer spaces than num_spaces_before_ts, and then only, and leaves the
\* message unchanged.
C12_TooFewSpacesFail ==
    [][InsertStep =>
           /\ SpacesIn(content) < pattern.m_num_spaces_before_ts =>
                  (thrown' = "Failure" /\ content' = content)
           /\ thrown' = "Failure" =>
                  SpacesIn(content) < pattern.m_num_spaces_before_ts]_vars

\* C12 witness: a message with two spaces and a pattern that asks for three
C12_Witness ==
    /\ pc = "inserted"
    /\ thrown = "Failure"
    /\ pattern.m_num_spaces_before_ts = 3
    /\ SpacesIn(content) = 2
    /\ content = Words(2) \o <<"w">>

\* parse_timestamp is called by a caller that holds a pattern
ParseStep == pc = "line" /\ pc' = "parsed"

C13_ParseReturnsFalse ==
    /\ pc = "parsed"
    /\ Has(pattern.m_format, "Z")
    /\ line = WrittenLine(pattern, BaseStamp)
    /\ ~ret
    /\ thrown = "none"

\* search_known_ts_patterns is called
SearchStep == pc = "line" /\ pc' = "searched"

\* The positions and the timestamp of a result of parse_timestamp
OutsOf(r) == <<r.timestamp, r.timestamp_begin_pos, r.timestamp_end_pos>>

\* C14: parse_timestamp raises nothing; every mismatch is reported by
\* false, with the caller's timestamp, begin_pos and end_pos unmodified, so
\* that what a search finds holds nothing of the patterns that failed.
C14_FailedParseLeavesOuts ==
    [][/\ ParseStep =>
              /\ thrown' = "none"
              /\ ~ret' => UNCHANGED <<timestamp, timestamp_begin_pos,
                                      timestamp_end_pos>>
       /\ SearchStep =>
              /\ thrown' = "none"
              /\ found' # nullptr =>
                    <<timestamp', timestamp_begin_pos', timestamp_end_pos'>> =
                        OutsOf(ParseOf(m_known_ts_patterns[found' + 1],
                                       line))]_vars

\* C14 witness: a parse that failed after the caller's timestamp was set,
\* on the text "13:02:03 PM" that the pattern itself wrote
C14_Witness ==
    /\ pc = "parsed"
    /\ ~ret
    /\ thrown = "none"
    /\ sent.kind = "sent"
    /\ timestamp = sent.timestamp
    /\ timestamp.d = TestDay
    /\ timestamp_begin_pos = 0
    /\ timestamp_end_pos = 0

\* C14 witness of the search: a pattern found after earlier entries failed,
\* by a caller whose timestamp was set before
C14_FoundAfterFailures ==
    /\ pc = "searched"
    /\ sent.kind = "sent"
    /\ found > 0
    /\ timestamp # sent.timestamp

\* The hour that %I and %l write for the hour h of the day
EmittedHour12(h) ==
    IF h = 0 THEN 12
    ELSE IF h <= 12 THEN h
    ELSE IF h = 13 THEN 13
    ELSE h - 12

\* The fields written for a time of day ms (in milliseconds) of TestDay
StampWritten(h, ms) ==
    [BaseStamp EXCEPT !.hour = h,
                      !.hour12 = EmittedHour12(h),
                      !.part_of_day =
                          IF h >= 12 THEN <<"P", "M">> ELSE <<"A", "M">>,
                      !.minute = (ms \div 60000) % 60,
                      !.second = (ms \div 1000) % 60,
                      !.millisecond = ms % 1000]

\* A pattern with %I or %l has formatted a timestamp of TestDay into a
\* message with the spaces it asks for
Hour12Formatted ==
    /\ pc = "inserted"
    /\ thrown = "none"
    /\ sent.kind = "sent"
    /\ found = nullptr
    /\ timestamp.d = TestDay
    /\ Has(pattern.m_format, "I") \/ Has(pattern.m_format, "l")

C15_MidnightIsTwelve ==
    /\ Hour12Formatted
    /\ HourOf(timestamp) = 0
    /\ content = <<"1","2",":","0","2",":","0","3"," ","A","M"," ","r","e","s","t">>

C15_TwentyThreeIsEleven ==
    /\ Hour12Formatted
    /\ HourOf(timestamp) = 23
    /\ content = <<"1","1",":","0","2",":","0","3"," ","P","M"," ","r","e","s","t">>

\* The built-in catalog as the specification lists it, in its order
SpecCatalog ==
    << Pattern(0, <<"%","Y","-","%","m","-","%","d","T","%","H",":","%","M",":","%","S",".","%","3">>),
       Pattern(0, <<"%","Y","-","%","m","-","%","d","T","%","H",":","%","M",":","%","S",",","%","3">>),
       Pattern(0, <<"[","%","Y","-","%","m","-","%","d","T","%","H",":","%","M",":","%","S">>),
       Pattern(0, <<"[","%","Y","%","m","%","d","-","%","H",":","%","M",":","%","S","]">>),
       Pattern(0, <<"%","Y","-","%","m","-","%","d"," ","%","H",":","%","M",":","%","S",",","%","3">>),
       Pattern(0, <<"%","Y","-","%","m","-","%","d"," ","%","H",":","%","M",":","%","S",".","%","3">>),
       Pattern(0, <<"[","%","Y","-","%","m","-","%","d"," ","%","H",":","%","M",":","%","S",",","%","3","]">>),
       Pattern(0, <<"%","Y","-","%","m","-","%","d"," ","%","H",":","%","M",":","%","S">>),
       Pattern(1, <<"%","Y","-","%","m","-","%","d"," "," ","%","H",":","%","M",":","%","S">>),
       Pattern(0, <<"%","Y","/","%","m","/","%","d"," ","%","H",":","%","M",":","%","S">>),
       Pattern(0, <<"%","y","/","%","m","/","%","d"," ","%","H",":","%","M",":","%","S">>),
       Pattern(0, <<"%","y","%","m","%","d"," ","%","k",":","%","M",":","%","S">>),
       Pattern(0, <<"%","d"," ","%","b"," ","%","Y"," ","%","H",":","%","M",":","%","S",",","%","3">>),
       Pattern(0, <<"%","b"," ","%","d",","," ","%","Y"," ","%","l",":","%","M",":","%","S"," ","%","p">>),
       Pattern(0, <<"%","B"," ","%","d",","," ","%","Y"," ","%","H",":","%","M">>),
       Pattern(1, <<"[","%","d","/","%","b","/","%","Y",":","%","H",":","%","M",":","%","S">>),
       Pattern(3, <<"[","%","d","/","%","b","/","%","Y",":","%","H",":","%","M",":","%","S">>),
       Pattern(3, <<"[","%","d","/","%","m","/","%","Y",":","%","H",":","%","M",":","%","S">>),
       Pattern(2, <<"%","Y","-","%","m","-","%","d"," ","%","H",":","%","M",":","%","S",",","%","3">>),
       Pattern(6, <<"%","Y","-","%","m","-","%","d"," ","%","H",":","%","M",":","%","S">>),
       Pattern(1, <<"%","Y","-","%","m","-","%","d"," ","%","H",":","%","M",":","%","S">>),
       Pattern(4, <<"%","a"," ","%","b"," ","%","e"," ","%","H",":","%","M",":","%","S"," ","%","Y">>),
       Pattern(0, <<"<","<","<","%","Y","-","%","m","-","%","d"," ","%","H",":","%","M",":","%","S",":","%","3">>),
       Pattern(0, <<"%","b"," ","%","d"," ","%","H",":","%","M",":","%","S">>) >>

\* No entry of a catalog is there twice
NoDuplicates(catalog) ==
    \A i, j \in 1..Len(catalog) : catalog[i] = catalog[j] => i = j

\* C16: init() is idempotent: after one call and after any further number
\* of calls the catalog is the 24 entries of the specification, in that
\* order, none of them twice, so that a search gives the same after one
\* call as after several; before the first call it is empty.
C16_InitIdempotent ==
    /\ [](inits = 0 => m_known_ts_patterns = <<>>)
    /\ [](inits > 0 =>
             /\ m_known_ts_patterns = SpecCatalog
             /\ Len(m_known_ts_patterns) = 24
             /\ NoDuplicates(m_known_ts_patterns))
    /\ [][(inits > 0 /\ inits' > inits) =>
              m_known_ts_patterns' = m_known_ts_patterns]_vars

\* C16 witness: a search, after two calls of init(), that found the last
\* entry of the catalog
C16_Witness ==
    /\ pc = "searched"
    /\ inits = 2
    /\ m_known_ts_patterns = SpecCatalog
    /\ found = 23
    /\ pattern = SpecCatalog[24]

\* The text a goes before the text b in the order of the dictionary: at
\* the first place where they differ a has ended or has the smaller
\* character
TextBefore(a, b) ==
    \E k \in 0..Len(a) :
        /\ k <= Len(b)
        /\ SubSeq(a, 1, k) = SubSeq(b, 1, k)
        /\ \/ k = Len(a) /\ k < Len(b)
           \/ k < Len(a) /\ k < Len(b)
                /\ CharCode(a[k + 1]) < CharCode(b[k + 1])

\* The tuple (group_id, end_ts, orig_path, id) of x is lexicographically
\* smaller than that of y: smaller in the first component where they differ
SmallerTuple(x, y) ==
    \/ x.group_id < y.group_id
    \/ x.group_id = y.group_id /\ x.end_ts < y.end_ts
    \/ x.group_id = y.group_id /\ x.end_ts = y.end_ts
          /\ TextBefore(x.orig_path, y.orig_path)
    \/ x.group_id = y.group_id /\ x.end_ts = y.end_ts
          /\ x.orig_path = y.orig_path /\ x.id < y.id

\* C17: FileGroupIdAndEndTimestampLTSetComparator(lhs, rhs) is true iff
\* the tuple (group_id, end_ts, orig_path, id) of lhs is lexicographically
\* smaller than that of rhs; on files with distinct ids it is a strict
\* total order: irreflexive, transitive, and of two files with different
\* ids exactly one is before the other.
C17_ComparatorIsTupleOrder ==
    compared.done =>
        /\ compared.ab <=> SmallerTuple(file_a, file_b)
        /\ ~compared.aa
        /\ (compared.ab /\ compared.bc) => compared.ac
        /\ file_a.id # file_b.id => (compared.ab <=> ~compared.ba)

\* C17 witness: two files of one group, end timestamp and path, which only
\* their ids tell apart
C17_Witness ==
    /\ compared.done
    /\ file_a.group_id = file_b.group_id
    /\ file_a.end_ts = file_b.end_ts
    /\ file_a.orig_path = file_b.orig_path
    /\ file_a.id < file_b.id
    /\ compared.ab
    /\ ~compared.ba

\* C17 witnesses of the other keys: a path that is the beginning of the
\* other, before a file with a greater id; a file without timestamps
\* before one with, whatever the paths; and three files in a row
C17_PrefixPathFirst ==
    /\ compared.done
    /\ file_a.orig_path = <<"a">>
    /\ file_b.orig_path = <<"a","/","b">>
    /\ file_a.id > file_b.id
    /\ compared.ab

C17_NoTimestampFirst ==
    /\ compared.done
    /\ file_a.group_id = file_b.group_id
    /\ file_a.end_ts = cEpochTimeMin
    /\ file_b.end_ts # cEpochTimeMin
    /\ file_a.orig_path = <<"b">>
    /\ file_b.orig_path = <<"a">>
    /\ compared.ab

C17_ThreeInARow ==
    /\ compared.done
    /\ compared.ab
    /\ compared.bc
    /\ compared.ac
    /\ file_a.group_id = file_c.group_id
    /\ file_a.end_ts = file_c.end_ts

\* The last call on the SQLiteDB was prepare_statement
PreparedLast == db_last.call = "prepare_statement"

\* C20: after any sequence of open, close and prepare_statement calls,
\* prepare_statement raises NotInit exactly when the handle is null, that
\* is when the database was never opened or was closed successfully since
\* its last successful open; otherwise it returns a statement bound to the
\* current handle, and no statement is bound to a null handle.
C20_NotInitIffNullHandle ==
    /\ m_db_handle = nullptr <=> db_opened # "open"
    /\ PreparedLast =>
          /\ db_last.thrown = "NotInit" <=> m_db_handle = nullptr
          /\ db_last.thrown # "NotInit" =>
                /\ db_last.thrown = "none"
                /\ db_last.prepared.db_handle = m_db_handle
                /\ db_last.prepared.statement \in Statements
    /\ \A s \in db_statements : s.db_handle # nullptr

\* C20 witness: NotInit from a database that was opened and then closed
C20_Witness ==
    /\ PreparedLast
    /\ db_last.thrown = "NotInit"
    /\ db_opened = "closed"
    /\ m_db_handle = nullptr

\* C20 witnesses of the other cases: NotInit from a database that was
\* never opened; a statement from a database whose close() found it busy
\* and returned false; a statement bound to the handle of a second open
C20_NeverOpened ==
    /\ PreparedLast
    /\ db_last.thrown = "NotInit"
    /\ db_opened = "never"
    /\ db_num_handles = 0

C20_BusyCloseKeepsHandle ==
    /\ db_last.call = "close"
    /\ ~db_last.ret
    /\ m_db_handle # nullptr
    /\ db_opened = "open"

C20_SecondOpen ==
    /\ PreparedLast
    /\ db_last.thrown = "none"
    /\ db_last.prepared.db_handle = 2
    /\ \E s \in db_statements : s.db_handle = 1

\* The files held in the open segment whose list of files is files_in_segment
HeldIn(files_in_segment) ==
    {m_files[files_in_segment[i] + 1] : i \in 1..Len(files_in_segment)}

\* C18: after any sequence of file creations, writes, releases and
\* mark_file_ready_for_segment calls, every file held in the open segment
\* for files with timestamps has end_ts != MIN and every file held in the
\* one for files without timestamps has end_ts = MIN; no file is in both.
C18_FilesRoutedByEndTimestamp ==
    /\ \A f \in HeldIn(m_files_with_timestamps_in_segment) :
           f.end_ts # cEpochTimeMin
    /\ \A f \in HeldIn(m_files_without_timestamps_in_segment) :
           f.end_ts = cEpochTimeMin
    /\ HeldIn(m_files_with_timestamps_in_segment)
           \cap HeldIn(m_files_without_timestamps_in_segment) = {}

\* C18 witness: both open segments hold a file, and the one without
\* timestamps has messages
C18_Witness ==
    /\ Len(m_files_with_timestamps_in_segment) = 1
    /\ Len(m_files_without_timestamps_in_segment) = 1
    /\ \E f \in HeldIn(m_files_without_timestamps_in_segment) :
           f.num_messages = 2

\* The segments written out have their files' metadata in the files table
MetadataPersisted ==
    \A i \in 1..Len(segments) :
        \A j \in 1..Len(segments[i].files) :
            [file_id |-> segments[i].files[j],
             segment_id |-> segments[i].id] \in m_metadata_db

\* The ids of the segments written out grow in the order of their sealing
IdsInSealingOrder ==
    \A i, j \in 1..Len(segments) : i < j => segments[i].id < segments[j].id

\* A step that seals takes the ids of its segments, whichever of the two
\* kinds they are, from the one counter and moves it past them, and leaves
\* the segments sealed before as they were
SealedFromOneCounter ==
    /\ Len(segments') >= Len(segments)
    /\ SubSeq(segments', 1, Len(segments)) = segments
    /\ \A i \in (Len(segments) + 1)..Len(segments') :
           segments'[i].id = m_next_segment_id + (i - Len(segments) - 1)
    /\ m_next_segment_id' =
           m_next_segment_id + (Len(segments') - Len(segments))

\* C19: segment ids are handed out in sealing order from a single counter
\* shared by both kinds of segment: each sealed segment has a larger id
\* than those sealed before, no id is given twice, and the metadata of the
\* files of a segment is persisted in the step that seals it, so that no
\* state has a sealed segment without it.
C19_SegmentIdsInSealingOrder ==
    /\ [](IdsInSealingOrder /\ MetadataPersisted)
    /\ [][SealedFromOneCounter]_vars

\* C19 witness: a segment of each kind sealed by reaching the target size,
\* the one without timestamps first
C19_Witness ==
    /\ is_open
    /\ Len(segments) = 2
    /\ ~segments[1].with_timestamps
    /\ segments[2].with_timestamps
    /\ segments[1].id = 0
    /\ segments[2].id = 1
    /\ segments[1].files # <<>>
    /\ segments[2].files # <<>>

\* A step of close(), of open() and of prepare_statement() on the SQLiteDB
CloseStep ==
    /\ db_last'.call = "close"
    /\ db_statements' = db_statements
    /\ <<m_db_handle, db_last, db_was_busy>>' #
           <<m_db_handle, db_last, db_was_busy>>

OpenStep == db_num_handles' = db_num_handles + 1

PrepareStep ==
    /\ db_last'.call = "prepare_statement"
    /\ db_statements \subseteq db_statements'
    /\ <<db_last, db_statements>>' # <<db_last, db_statements>>

\* A prepared statement of the current connection is outstanding
StatementsOutstanding ==
    \E s \in db_statements : s.db_handle = m_db_handle

\* C21: close() while prepared statements of the database are outstanding
\* returns false and leaves the handle in place, so the database is still
\* open and can be closed later; in every other case close() returns true
\* and clears the handle.
C21_BusyCloseKeepsHandle ==
    [][CloseStep =>
          IF StatementsOutstanding
          THEN /\ ~db_last'.ret
               /\ m_db_handle' = m_db_handle
               /\ m_db_handle' # nullptr
               /\ db_opened' = "open"
          ELSE /\ db_last'.ret
               /\ m_db_handle' = nullptr]_vars

\* C21 witness: a close() that returned false, the handle and its
\* statement still there
C21_Witness ==
    /\ db_last.call = "close"
    /\ ~db_last.ret
    /\ db_was_busy
    /\ StatementsOutstanding

\* C21 witness of the later close: it returned true, after a close() of
\* the same connection had found it busy
C21_ClosedLater ==
    /\ db_last.call = "close"
    /\ db_last.ret
    /\ db_was_busy
    /\ db_opened = "closed"
    /\ m_db_handle = nullptr

\* The last call was an open() that raised Failure
OpenFailedLast == db_last.call = "open" /\ db_last.thrown = "Failure"

\* C28: open() on a path that cannot be opened releases the connection
\* through close() and raises Failure; afterwards the handle is null, a
\* following prepare_statement raises NotInit and a following close()
\* returns true and changes nothing.
C28_FailedOpenLeavesNotOpen ==
    /\ [](OpenFailedLast => m_db_handle = nullptr /\ db_opened # "open")
    /\ [][/\ OpenStep =>
                \/ /\ db_last'.thrown = "Failure"
                   /\ m_db_handle' = nullptr
                \/ /\ db_last'.thrown = "none"
                   /\ m_db_handle' = db_num_handles'
                   /\ db_opened' = "open"
          /\ (OpenFailedLast /\ PrepareStep) =>
                /\ db_last'.thrown = "NotInit"
                /\ db_statements' = db_statements
          /\ (OpenFailedLast /\ CloseStep) =>
                /\ db_last'.ret
                /\ UNCHANGED <<m_db_handle, db_statements, db_opened>>]_vars

\* C28 witness: NotInit from prepare_statement after the only open() of
\* the database failed
C28_Witness ==
    /\ PreparedLast
    /\ db_last.thrown = "NotInit"
    /\ db_opened = "never"
    /\ db_num_handles = 1

\* C28 witnesses of the other cases: the close() after a failed open, and a
\* failed open() of a database that was open, with a statement of the
\* connection it had
C28_CloseAfterFailedOpen ==
    /\ db_last.call = "close"
    /\ db_last.ret
    /\ db_opened = "never"
    /\ db_num_handles = 1
    /\ m_db_handle = nullptr

C28_FailedReopen ==
    /\ OpenFailedLast
    /\ db_opened = "closed"
    /\ db_num_handles = 2
    /\ m_db_handle = nullptr
    /\ \E s \in db_statements : s.db_handle = 1

\* C29: before init() the catalog is empty and search_known_ts_patterns
\* returns null with both positions npos for every line, raising nothing and
\* leaving the timestamp as it was; after init() the catalog is never empty.
C29_EmptyCatalogBeforeInit ==
    /\ [](inits = 0 => Len(m_known_ts_patterns) = 0)
    /\ [](inits > 0 => Len(m_known_ts_patterns) > 0)
    /\ [][(SearchStep /\ inits = 0) =>
              /\ found' = nullptr
              /\ timestamp_begin_pos' = npos
              /\ timestamp_end_pos' = npos
              /\ timestamp' = timestamp
              /\ thrown' = "none"]_vars

\* C29 witness: a line that starts with a timestamp of the catalog was
\* searched before init()
C29_Witness ==
    /\ pc = "searched"
    /\ inits = 0
    /\ found = nullptr
    /\ timestamp_begin_pos = npos
    /\ timestamp_end_pos = npos
    /\ search_known_ts_patterns(KnownPatterns, line, timestamp, 0, 0).ret
           # nullptr

\* C29 witness of the other half: the same kind of search after init()
C29_FoundAfterInit ==
    /\ pc = "searched"
    /\ inits > 0
    /\ found # nullptr
    /\ Len(m_known_ts_patterns) = Len(KnownPatterns)

\* C29 witness of the untouched output: the caller's timestamp was not the
\* initial one when it searched before init()
C29_TimestampKept ==
    /\ pc = "searched"
    /\ inits = 0
    /\ found = nullptr
    /\ timestamp # EpochMs(0, 0)

\* parse_timestamp has accepted the line, called by a holder of the pattern
\* or by the search
Accepted ==
    /\ thrown = "none"
    /\ \/ pc = "parsed" /\ ret
       \/ pc = "searched" /\ found # nullptr

\* Texts put after the end of the timestamp
Suffixes ==
    {<<>>, <<"0">>, <<" ", "P", "M">>, <<":", "0", "0">>, <<"x", "9">>}

\* The line up to the end of its timestamp
UpToEnd == SubSeq(line, 1, timestamp_end_pos)

\* The pattern accepts the text with the outputs the line gave
SameResult(r) ==
    /\ r.ret
    /\ r.thrown = "none"
    /\ r.timestamp = timestamp
    /\ r.timestamp_begin_pos = timestamp_begin_pos
    /\ r.timestamp_end_pos = timestamp_end_pos

\* The pattern rejects the text
Rejected(r) == ~r.ret /\ r.thrown = "none"

\* C30: what parse_timestamp accepts depends only on the characters up to
\* end_pos: the line up to end_pos followed by any text is accepted with the
\* same timestamp, begin_pos and end_pos, and every prefix of the line that
\* ends inside the timestamp is rejected.
C30_ResultDependsOnTextUpToEnd ==
    Accepted =>
        /\ \A X \in Suffixes : SameResult(ParseOf(pattern, UpToEnd \o X))
        /\ \A k \in (timestamp_begin_pos + 1)..(timestamp_end_pos - 1) :
              Rejected(ParseOf(pattern, SubSeq(line, 1, k)))

\* C30 witness: an accepted line with text after its timestamp, different
\* from every suffix tried
C30_Witness ==
    /\ Accepted
    /\ pc = "parsed"
    /\ timestamp_begin_pos > 0
    /\ timestamp_end_pos > timestamp_begin_pos + 1
    /\ timestamp_end_pos < Len(line)
    /\ SubSeq(line, timestamp_end_pos + 1, Len(line)) \notin Suffixes

\* C30 witness for the search: the found pattern's timestamp ends where the
\* line ends
C30_WholeLine ==
    /\ Accepted
    /\ pc = "searched"
    /\ timestamp_end_pos = Len(line)
    /\ timestamp_end_pos > 10

\* The line decompression gives for the line that was searched
DecompressedLine ==
    DecompressedMessage(m_known_ts_patterns,
                        EncodedMessage(line, found, timestamp,
                                       timestamp_begin_pos,
                                       timestamp_end_pos))

\* C22: compressing a file and decompressing it gives the file back byte for
\* byte; here for each line of it: the line written for the message that was
\* kept of a line is that line.
C22_DecompressReproducesFile ==
    (pc = "searched" /\ thrown = "none") =>
        /\ DecompressedLine.thrown = "none"
        /\ DecompressedLine.msg = line

\* The splits of the archives directory and the original path of a split
AllSplits ==
    {<<i, k>> : i \in 1..MaxArchives, k \in 1..MaxSplits} \cap
    {sp \in (1..Len(archives_dir)) \X (1..MaxSplits) :
        sp[2] <= Len(archives_dir[sp[1]])}

OrigPathOf(sp) == archives_dir[sp[1]][sp[2]]

\* The splits selected by the request: all of them for an empty request
SelectedSplits ==
    {sp \in AllSplits :
        files_to_decompress = {} \/ OrigPathOf(sp) \in files_to_decompress}

\* The splits whose temporary file is recorded, and those renamed
DecompressedSplits == {e.first : e \in temp_path_to_final_path}

RenamedSplits == {done.first : done \in renamed}

\* A step in which decompress_file was called and recorded no temporary file
DecompressFileFailed ==
    /\ passed' # passed
    /\ temp_path_to_final_path' = temp_path_to_final_path

\* C23: no temporary file is renamed until every selected file of every
\* archive has been decompressed successfully; a failing decompress_file
\* makes decompress return false at once, with no further file or archive
\* processed and no rename.
C23_RenameOnlyAfterAllDecompressed ==
    /\ [](renamed # {} => SelectedSplits \subseteq DecompressedSplits)
    /\ [](returned_at \in {74, 98, 124} => renamed = {})
    /\ [][DecompressFileFailed =>
              /\ returned_at' \in {74, 98, 124, 159}
              /\ decompress_pc' = "done"
              /\ renamed' = {}]_vars
    /\ [][decompress_pc = "done" => UNCHANGED decompressVars]_vars

\* C23 witness: decompress_file failed in the second archive, after files
\* were decompressed; splits are left and nothing is renamed
C23_Witness ==
    /\ returned_at \in {74, 98, 124}
    /\ temp_path_to_final_path # {}
    /\ renamed = {}
    /\ passed # SelectedSplits
    /\ Len(archive_ix) = 1
    /\ Len(archives_dir[1]) > 0

\* C23 witness of the renames: files of two archives decompressed and renamed
C23_AllRenamed ==
    /\ returned_at = 175
    /\ Cardinality(renamed) = 3
    /\ \E r1 \in renamed, r2 \in renamed : r1.first[1] # r2.first[1]

\* The path for a file wanted at second: second if it does not exist, or
\* second.i for the smallest i >= 1 such that second.i does not exist
FreePath(second, existing) ==
    IF OutputPath(second, 0) \notin existing THEN OutputPath(second, 0)
    ELSE OutputPath(second,
                    CHOOSE i \in 1..(Cardinality(existing) + 1) :
                        /\ OutputPath(second, i) \notin existing
                        /\ \A j \in 1..(i - 1) :
                              OutputPath(second, j) \in existing)

\* C24: a rename never goes onto an existing path: the file wanted at P goes
\* to P if P does not exist, otherwise to P.i for the smallest i >= 1 such
\* that P.i does not exist; two temporary files of a run end at different
\* paths.
C24_RenameNeverOverwrites ==
    /\ [](\A done \in renamed : ~done.existed)
    /\ [](\A r1 \in renamed, r2 \in renamed :
              r1.first # r2.first => r1.final_path # r2.final_path)
    /\ [][\A done \in renamed' \ renamed :
              /\ done.final_path = FreePath(done.second, existing_paths)
              /\ done.final_path \notin existing_paths
              /\ existing_paths' = existing_paths \cup {done.final_path}]_vars

\* C24 witness: P and P.1 existed, and two temporary files wanted P: they
\* are at P.2 and P.3
C24_Witness ==
    /\ \E r1 \in renamed, r2 \in renamed :
          /\ r1.first # r2.first
          /\ r1.second = "a" /\ r2.second = "a"
          /\ r1.final_path = OutputPath("a", 2)
          /\ r2.final_path = OutputPath("a", 3)

\* C24 witness of the plain case: a file renamed to the path it wanted
C24_WantedPathFree ==
    \E done \in renamed : done.final_path = OutputPath("b", 0)

\* C25: with a non-empty request, a split is passed to decompress_file if and
\* only if its original path is requested, in the branch for one path as in
\* the branch for several; with an empty request every split of every
\* archive is passed.
C25_SelectedSplitsDecompressed ==
    /\ passed \subseteq SelectedSplits
    /\ returned_at = 175 => passed = SelectedSplits
    /\ decompress_pc \in {"archives", "refresh", "files"} =>
          \A sp \in SelectedSplits :
              sp[1] < Head(archive_ix) => sp \in passed

\* C25 witness: one path requested, its splits are in two archives among
\* splits of other files
C25_Witness ==
    /\ returned_at = 175
    /\ Cardinality(files_to_decompress) = 1
    /\ Cardinality(passed) = 2
    /\ \E s1 \in passed, s2 \in passed : s1[1] # s2[1]
    /\ passed # AllSplits

\* C25 witnesses of the other branches: two paths requested and a split of a
\* third file skipped; nothing requested and every split passed
C25_SeveralPaths ==
    /\ returned_at = 175
    /\ Cardinality(files_to_decompress) = 2
    /\ passed # {}
    /\ passed # AllSplits

C25_EveryFile ==
    /\ returned_at = 175
    /\ files_to_decompress = {}
    /\ Cardinality(passed) = MaxSplits
    /\ \E sp \in passed : OrigPathOf(sp) = "c"

\* The end of decompress() after the loop over the temporary files
ReturnStep ==
    /\ decompress_pc = "rename"
    /\ NotRenamed = {}
    /\ decompress_pc' = "done"

\* C26: decompress returns true even when requested paths were found in no
\* archive: such a path is only logged, the result is the same and the files
\* that were found are renamed.
C26_NotFoundOnlyLogged ==
    /\ [](returned_at = 175 =>
              /\ logged = {file \in files_to_decompress :
                              \A sp \in AllSplits : OrigPathOf(sp) # file}
              /\ RenamedSplits = SelectedSplits)
    /\ [][ReturnStep =>
              /\ returned_at' = 175
              /\ renamed' = renamed]_vars

\* C26 witness: of two requested paths one was in no archive; the other's
\* file is renamed and the result is true
C26_Witness ==
    /\ returned_at = 175
    /\ Cardinality(files_to_decompress) = 2
    /\ Cardinality(logged) = 1
    /\ renamed # {}

\* C26 witness: none of the requested paths was in an archive
C26_NothingFound ==
    /\ returned_at = 175
    /\ Cardinality(logged) = 2
    /\ archives_dir[1] # <<>>
    /\ renamed = {}

\* The calls on the archive reader, in the order a reader allows
ReaderOrder ==
    {<<"closed", "open">>, <<"open", "refreshed">>, <<"refreshed", "closed">>}

\* C27: at most one archive is open at any time: without a failure each
\* archive_reader.open is followed by refresh_dictionaries, the iteration
\* over the files and archive_reader.close before the next open; when
\* decompress returns true every opened archive and the global metadata DB
\* are closed.
C27_OneArchiveOpenAtATime ==
    /\ [](Cardinality(open_archives) <= 1)
    /\ [](returned_at = 175 =>
              /\ open_archives = {}
              /\ archive_reader = "closed"
              /\ global_metadata_db = "closed")
    /\ [][/\ archive_reader' # archive_reader =>
                <<archive_reader, archive_reader'>> \in ReaderOrder
          /\ open_archives' # open_archives =>
                \/ archive_reader' = "open" /\ open_archives = {}
                \/ archive_reader' = "closed" /\ open_archives' = {}
          /\ passed' # passed =>
                /\ archive_reader = "refreshed"
                /\ open_archives = {Head(archive_ix)}]_vars

\* C27 witness: the second archive is open and refreshed, the first, whose
\* files were decompressed, is closed
C27_Witness ==
    /\ archive_reader = "refreshed"
    /\ open_archives = {2}
    /\ \E sp \in passed : sp[1] = 1
    /\ decompress_pc = "files"

\* C27 witness of the end: true returned after two archives were opened
C27_AllClosed ==
    /\ returned_at = 175
    /\ global_metadata_db = "closed"
    /\ \E s1 \in passed, s2 \in passed : s1[1] # s2[1]

====
